---- MODULE Spec2Model ----
(***************************************************************************)
(* A model of the multiemu core: the rational tick-rate unification and    *)
(* the batched run loop of SingleThreadedExecutor                          *)
(* (src/machine/executor/single.rs), the MemoryTranslationTable bus        *)
(* (src/component/memory.rs), the PlainMemory, MirrorMemory and RomMemory   *)
(* devices (src/component/definitions/misc), the MachineBuilder            *)
(* (src/machine/mod.rs) and the CHIP-8 processor under its ProcessorTask   *)
(* (src/component/definitions/chip8/processor, src/task/processor.rs).     *)
(***************************************************************************)
EXTENDS Integers, Sequences, FiniteSets, TLC

VARIABLES
    \* ---- SingleThreadedExecutor ----
    ratios,          \* the tick rates handed to Executor::new, <<numer, denom>> each
    built,           \* whether Executor::new has run
    tasks,           \* self.tasks: the local tick rate of each task
    rollover_tick,   \* self.rollover_tick
    tick_real_time,  \* self.tick_real_time, a Ratio <<numer, denom>>
    current_tick,    \* self.current_tick
    running,         \* whether a run(period) call is in its loop
    ticked,          \* per task, the component ticks performed so far
    wraps,           \* how many times current_tick passed the rollover boundary
    clock,           \* what Instant::now() returns, in units of 1 / ClockHz seconds
    period,          \* the period of the run(period) call in progress, same units
    start_time,      \* start_time of the run(period) call in progress
    timestamp,       \* self.timestamp
    last_increment,  \* the amount of the last increment_tick call
    issued,          \* the tasks ticked by the last pass of the loop, in call order
    \* ---- MirrorMemory called on its own ----
    mirror,          \* the MirrorMemoryConfig under test
    mirror_call,     \* the last device call made on it, with the records it emitted
    \* ---- MemoryTranslationTable ----
    table,           \* self.entries: the registered devices, in registration order
    memory,          \* per device, its internal buffer (PlainMemory::buffer)
    debug_build,     \* whether debug_assert! is compiled in
    access,          \* the bus access in progress or just finished
    accesses,        \* how many bus accesses were started
    held,            \* the devices whose Mutex the bus access holds locked
    \* ---- MachineBuilder ----
    machine,         \* "building" until finalize_machine has returned the Machine
    \* ---- Chip8Processor under its ProcessorTask ----
    program_pointer, \* ProcessorTask::program_pointer
    stack,           \* Chip8Processor::stack
    registers,       \* Chip8Processor::registers: work_registers and index
    execution_state, \* Chip8Processor::execution_state
    processor_config, \* Chip8Processor::config: the kind of CHIP-8
    delay_timer,     \* Chip8Timer::delay_timer
    loadd,           \* history: the value the last Loadd set, the timer ticks since
    batch,           \* the ProcessorTask::tick call in progress: its batch_size, the
                     \* polls and the instructions executed in it so far
    controller,      \* the EmulatedGamepad: the keys that are pressed
    remaining,       \* iterations left of the batch loop of ProcessorTask::tick
    position,        \* where ProcessorTask::tick stands in its loop body
    executed,        \* how many instructions were fetched
    bus_traffic,     \* how many bus reads and writes the processor issued
    last_wait,       \* the last Keyd executed and the key press observed for it
    instruction,     \* the last two bytes handed to decode_instruction
    decoded          \* what decode_instruction made of them

execVars == <<ratios, built, tasks, rollover_tick, tick_real_time, current_tick,
              running, ticked, wraps, clock, period, start_time, timestamp,
              last_increment, issued>>
mirrorVars == <<mirror, mirror_call>>
busVars == <<table, memory, debug_build, access, accesses, held>>
buildVars == <<machine>>
chip8Vars == <<program_pointer, stack, registers, execution_state, processor_config,
               delay_timer, loadd,
               batch, controller,
               remaining, position, executed, bus_traffic, last_wait,
               instruction, decoded>>
vars == <<execVars, mirrorVars, busVars, buildVars, chip8Vars>>

\* the timer as constructed counts as loaded with 0
NoLoadd == [value |-> 0, ticks |-> 0]

Loaded(ins, history, regs) ==
    IF ins.op = "Loadd"
    THEN [value |-> regs.work_registers[ins.register], ticks |-> 0]
    ELSE history

(***************************************************************************)
(* Bounds of the model.                                                    *)
(***************************************************************************)
MaxNumer == 3
MaxDenom == 2
MaxRatios == 3
MaxExecRate == 3
MaxExecTasks == 3
MaxWraps == 1
ClockHz == 2
MaxClock == 3
MaxPeriod == 2

\* Tick rates of the CHIP-8 machine definition.
Chip8ProcessorRate == 700
Chip8TimerRate == 60

Min(a, b) == IF a < b THEN a ELSE b
Max(a, b) == IF a > b THEN a ELSE b

(***************************************************************************)
(* num::Integer for u32 and num::rational::Ratio<u32>.                     *)
(***************************************************************************)
RECURSIVE gcd(_, _)
gcd(a, b) == IF b = 0 THEN a ELSE gcd(b, a % b)

lcm(a, b) == IF a = 0 /\ b = 0 THEN 0 ELSE a * (b \div gcd(a, b))

\* Ratio::new reduces the fraction to lowest terms
RatioNew(n, d) == LET g == gcd(n, d) IN <<n \div g, d \div g>>
numer(r) == r[1]
denom(r) == r[2]
recip(r) == <<r[2], r[1]>>

RECURSIVE FoldLcm(_, _, _)
FoldLcm(acc, s, i) == IF i > Len(s) THEN acc ELSE FoldLcm(lcm(acc, s[i]), s, i + 1)

(***************************************************************************)
(* find_component_timings: (rollover tick, local tick rates, real time per *)
(* tick).                                                                  *)
(***************************************************************************)
\* the least common multiple of all denominators
CommonDenominator(rs) == FoldLcm(1, [i \in 1..Len(rs) |-> denom(rs[i])], 1)

\* numerators adjusted to the common denominator
AdjustedNumerators(rs, common_denominator) ==
    [i \in 1..Len(rs) |-> numer(rs[i]) * (common_denominator \div denom(rs[i]))]

RECURSIVE FoldProduct(_, _, _)
FoldProduct(acc, s, i) == IF i > Len(s) THEN acc ELSE FoldProduct(acc * s[i], s, i + 1)

CommonMultipleAsProduct(adjusted_numerators) ==
    FoldProduct(adjusted_numerators[1], adjusted_numerators, 2)

\* reduce(lcm): the first element seeds the fold
CommonMultiple(adjusted_numerators) ==
    FoldLcm(adjusted_numerators[1], adjusted_numerators, 2)

TickRealTimeNoRecip(common_multiple, common_denominator) ==
    RatioNew(common_multiple, common_denominator)

TickRealTime(common_multiple, common_denominator) ==
    recip(RatioNew(common_multiple, common_denominator))

find_component_timings(rs) ==
    LET common_denominator == CommonDenominator(rs)
        adjusted_numerators == AdjustedNumerators(rs, common_denominator)
        common_multiple == CommonMultiple(adjusted_numerators)
    IN [rollover_tick |-> common_multiple,
        task_tick_rates |->
            [i \in 1..Len(rs) |-> common_multiple \div adjusted_numerators[i]],
        tick_real_time |-> TickRealTime(common_multiple, common_denominator)]

(***************************************************************************)
(* Inputs: reduced positive rationals, as Ratio::new builds them.          *)
(***************************************************************************)
ReducedRatios(ns, ds) == {r \in ns \X ds : gcd(r[1], r[2]) = 1}
SeqsUpTo(S, n) == UNION {[1..k -> S] : k \in 1..n}

TimingRatios ==
    ReducedRatios((1..MaxNumer) \cup {Chip8TimerRate, Chip8ProcessorRate}, 1..MaxDenom)
\* the run loop only sees the local tick rates: whole rates give them all
ExecRatios == ReducedRatios(1..MaxExecRate, {1})

NoMirror == [kind |-> "none"]
NoCall == [op |-> "none"]
NoAccess == [pc |-> "idle"]

MirrorIdle == mirror = NoMirror /\ mirror_call = NoCall
BusIdle ==
    /\ table = <<>>
    /\ memory = <<>>
    /\ debug_build = FALSE
    /\ access = NoAccess
    /\ accesses = 0
    /\ held = {}

Normal == [kind |-> "Normal"]
NoInstruction == [op |-> "none"]
NoWait == [register |-> 0, resume |-> 0, before |-> 0, key |-> 0, seen |-> FALSE]

\* no processor is part of the machine
NoBatch == [size |-> 0, polls |-> 0, executed |-> 0]

Chip8Idle ==
    /\ program_pointer = 0
    /\ stack = <<>>
    /\ registers = [work_registers |-> <<>>, index |-> 0]
    /\ execution_state = Normal
    /\ processor_config = [kind |-> "Chip8"]
    /\ delay_timer = 0
    /\ loadd = NoLoadd
    /\ batch = NoBatch
    /\ controller = {}
    /\ remaining = 0
    /\ position = "idle"
    /\ executed = 0
    /\ bus_traffic = 0
    /\ last_wait = NoWait
    /\ instruction = <<>>
    /\ decoded = NoInstruction

ExecUnbuilt(rs) ==
    /\ ratios = rs
    /\ built = FALSE
    /\ tasks = <<>>
    /\ rollover_tick = 0
    /\ tick_real_time = <<0, 1>>
    /\ current_tick = 0
    /\ running = FALSE
    /\ ticked = <<>>
    /\ wraps = 0
    /\ clock = 0
    /\ period = 0
    /\ start_time = 0
    /\ timestamp = 0
    /\ last_increment = 0
    /\ issued = <<>>

(***************************************************************************)
(* Address ranges (std::ops::Range<usize>) as <<start, end>>, half open.   *)
(***************************************************************************)
RangeLen(r) == IF r[2] > r[1] THEN r[2] - r[1] ELSE 0
Shift(r, by) == <<r[1] + by, r[2] + by>>

relocate_and_crop_range(from, to) ==
    LET from_start == from[1]
        from_end == from[2]
        to_start == to[1]
        to_end == to[2]
        \* the offset between from and to
        offset == from_start - to_start
        relocated_start == from_start - offset
        relocated_end == from_end - offset
        \* the relocated range is kept within the bounds of to
        start == Max(relocated_start, to_start)
        end == Min(relocated_end, to_end)
    IN <<start, end>>

(***************************************************************************)
(* Device configurations (PlainMemoryConfig, MirrorMemoryConfig).  The     *)
(* cycle penalty calculators are fn(range, denied): here one cost for a    *)
(* served call and one for a denied call.                                  *)
(***************************************************************************)
Deny == [kind |-> "Deny", n |-> 0]
Wrap(n) == [kind |-> "Wrap", n |-> n]

PlainMemory(range, readable, writable, max_word_size) ==
    [kind |-> "PlainMemory", assigned_range |-> range, readable |-> readable,
     writable |-> writable, max_word_size |-> max_word_size,
     target |-> <<0, 0>>, overflow_mode |-> Deny,
     penalty |-> 1, denied_penalty |-> 2]

MirrorMemory(range, readable, writable, target, overflow_mode) ==
    [kind |-> "MirrorMemory", assigned_range |-> range, readable |-> readable,
     writable |-> writable, max_word_size |-> 8,
     target |-> target, overflow_mode |-> overflow_mode,
     penalty |-> 4, denied_penalty |-> 8]

\* RomMemoryConfig: the ROM file is read only; write_cycle_penalty_calculator
\* takes no denied flag
RomMemory(range, max_word_size) ==
    [kind |-> "RomMemory", assigned_range |-> range, readable |-> TRUE,
     writable |-> FALSE, max_word_size |-> max_word_size,
     target |-> <<0, 0>>, overflow_mode |-> Deny,
     penalty |-> 1, denied_penalty |-> 2]

Denied(range) == [range |-> range, kind |-> "Denied", offset |-> 0]
Redirect(range, offset) == [range |-> range, kind |-> "Redirect", offset |-> offset]

\* debug_assert!([1, 2, 4, 8].contains(&buffer.len()))
WordSizes == {1, 2, 4, 8}
DebugAssertFails(debug, len) == debug /\ len \notin WordSizes

\* what a device call gives back: whether it panicked, the bytes it put in
\* the buffer slice (filled tells whether it did), the records it pushed,
\* its cycle cost and the device buffer afterwards
Outcome(panic, filled, data, records, cycles, mem) ==
    [panic |-> panic, filled |-> filled, data |-> data, records |-> records,
     cycles |-> cycles, mem |-> mem]

Slice(s, from, len) == [i \in 1..len |-> s[from + i]]
Patch(s, from, data) ==
    [i \in 1..Len(s) |-> IF i > from /\ i <= from + Len(data) THEN data[i - from] ELSE s[i]]

(***************************************************************************)
(* MirrorMemory::read_memory, write_memory, preview_memory                 *)
(***************************************************************************)
\* offset % target_range_size
WrapOffset(config, offset) == offset % RangeLen(config.target)

\* the records of read_memory and write_memory past the permission check
MirrorRecords(config, address, len) ==
    LET affected_range == <<address, address + len>>
        assigned_range_size == RangeLen(config.assigned_range)
        target_range_size == RangeLen(config.target)
        offset == (address - config.assigned_range[1]) + config.target[1]
    IN IF assigned_range_size > target_range_size /\ offset >= config.target[2]
       THEN IF config.overflow_mode.kind = "Deny"
            THEN <<Denied(affected_range)>>
            ELSE IF offset \div target_range_size >= config.overflow_mode.n
                 THEN <<Denied(affected_range)>>
                 ELSE <<Redirect(affected_range, WrapOffset(config, offset))>>
       ELSE <<Redirect(affected_range, offset)>>

IsDenial(records) == Len(records) > 0 /\ records[1].kind = "Denied"

MirrorAccessMemory(config, permitted, debug, address, buffer, mem) ==
    IF DebugAssertFails(debug, Len(buffer))
    THEN Outcome(TRUE, FALSE, buffer, <<>>, 0, mem)
    ELSE IF ~permitted
    THEN Outcome(FALSE, FALSE, buffer,
                 <<Denied(<<address, address + Len(buffer)>>)>>, config.denied_penalty, mem)
    ELSE LET records == MirrorRecords(config, address, Len(buffer))
         IN Outcome(FALSE, FALSE, buffer, records,
                    IF IsDenial(records) THEN config.denied_penalty ELSE config.penalty,
                    mem)

MirrorReadMemory(config, debug, address, buffer, mem) ==
    MirrorAccessMemory(config, config.readable, debug, address, buffer, mem)

MirrorWriteMemory(config, debug, address, buffer, mem) ==
    MirrorAccessMemory(config, config.writable, debug, address, buffer, mem)

\* preview_memory returns early only when the device is not readable
MirrorPreviewMemory(config, address, buffer, mem) ==
    LET affected_range == <<address, address + Len(buffer)>>
        assigned_range_size == RangeLen(config.assigned_range)
        target_range_size == RangeLen(config.target)
        offset == (address - config.assigned_range[1]) + config.target[1]
        overflow ==
            IF assigned_range_size > target_range_size /\ offset >= config.target[2]
            THEN IF config.overflow_mode.kind = "Deny"
                 THEN <<Denied(affected_range)>>
                 ELSE (IF offset \div target_range_size >= config.overflow_mode.n
                       THEN <<Denied(affected_range)>>
                       ELSE <<>>)
                      \o <<Redirect(affected_range, WrapOffset(config, offset))>>
            ELSE <<>>
    IN IF ~config.readable
       THEN Outcome(FALSE, FALSE, buffer, <<Denied(affected_range)>>, 0, mem)
       ELSE Outcome(FALSE, FALSE, buffer,
                    overflow \o <<Redirect(affected_range, offset)>>, 0, mem)

(***************************************************************************)
(* PlainMemory::read_memory, write_memory, preview_memory.  mem is the     *)
(* device's buffer, mem[1] the byte at assigned_range.start.               *)
(***************************************************************************)
\* slicing self.buffer out of bounds panics
PlainInBounds(config, address, len) ==
    address >= config.assigned_range[1] /\ address + len <= config.assigned_range[2]

PlainReadMemory(config, debug, address, buffer, mem) ==
    LET affected_range == <<address, address + Len(buffer)>>
    IN IF DebugAssertFails(debug, Len(buffer))
       THEN Outcome(TRUE, FALSE, buffer, <<>>, 0, mem)
       ELSE IF ~config.readable \/ Len(buffer) > config.max_word_size
       THEN Outcome(FALSE, FALSE, buffer, <<Denied(affected_range)>>,
                    config.denied_penalty, mem)
       ELSE IF ~PlainInBounds(config, address, Len(buffer))
       THEN Outcome(TRUE, FALSE, buffer, <<>>, 0, mem)
       ELSE Outcome(FALSE, TRUE,
                    Slice(mem, address - config.assigned_range[1], Len(buffer)),
                    <<>>, config.penalty, mem)

PlainWriteMemoryOfAnyWidth(config, debug, address, buffer, mem) ==
    LET affected_range == <<address, address + Len(buffer)>>
    IN IF DebugAssertFails(debug, Len(buffer))
       THEN Outcome(TRUE, FALSE, buffer, <<>>, 0, mem)
       ELSE IF ~config.writable
       THEN Outcome(FALSE, FALSE, buffer, <<Denied(affected_range)>>,
                    config.denied_penalty, mem)
       ELSE IF ~PlainInBounds(config, address, Len(buffer))
       THEN Outcome(TRUE, FALSE, buffer, <<>>, 0, mem)
       ELSE Outcome(FALSE, FALSE, buffer, <<>>, config.penalty,
                    Patch(mem, address - config.assigned_range[1], buffer))

PlainWriteMemory(config, debug, address, buffer, mem) ==
    LET affected_range == <<address, address + Len(buffer)>>
    IN IF DebugAssertFails(debug, Len(buffer))
       THEN Outcome(TRUE, FALSE, buffer, <<>>, 0, mem)
       ELSE IF ~config.writable \/ Len(buffer) > config.max_word_size
       THEN Outcome(FALSE, FALSE, buffer, <<Denied(affected_range)>>,
                    config.denied_penalty, mem)
       ELSE IF ~PlainInBounds(config, address, Len(buffer))
       THEN Outcome(TRUE, FALSE, buffer, <<>>, 0, mem)
       ELSE Outcome(FALSE, FALSE, buffer, <<>>, config.penalty,
                    Patch(mem, address - config.assigned_range[1], buffer))

PlainPreviewMemoryDraining(config, address, buffer, mem) ==
    IF ~config.readable \/ ~PlainInBounds(config, address, Len(buffer))
    THEN Outcome(FALSE, FALSE, buffer, <<>>, 0, mem)
    ELSE Outcome(FALSE, TRUE,
                 Slice(mem, address - config.assigned_range[1], Len(buffer)), <<>>, 0,
                 Patch(mem, address - config.assigned_range[1],
                       [i \in 1..Len(buffer) |-> 0]))

PlainPreviewMemory(config, address, buffer, mem) ==
    LET affected_range == <<address, address + Len(buffer)>>
    IN IF ~config.readable
       THEN Outcome(FALSE, FALSE, buffer, <<Denied(affected_range)>>, 0, mem)
       ELSE IF ~PlainInBounds(config, address, Len(buffer))
       THEN Outcome(TRUE, FALSE, buffer, <<>>, 0, mem)
       ELSE Outcome(FALSE, TRUE,
                    Slice(mem, address - config.assigned_range[1], Len(buffer)),
                    <<>>, 0, mem)

(***************************************************************************)
(* RomMemory::read_memory, write_memory, preview_memory.  mem is the ROM   *)
(* file, mem[1] the byte at assigned_range.start.                          *)
(***************************************************************************)
\* read_exact(buffer).unwrap() panics past the end of the file
RomInFile(config, address, len, mem) ==
    address >= config.assigned_range[1]
    /\ (address - config.assigned_range[1]) + len <= Len(mem)

RomReadMemory(config, debug, address, buffer, mem) ==
    LET affected_range == <<address, address + Len(buffer)>>
    IN IF DebugAssertFails(debug, Len(buffer))
       THEN Outcome(TRUE, FALSE, buffer, <<>>, 0, mem)
       ELSE IF Len(buffer) > config.max_word_size
       THEN Outcome(FALSE, FALSE, buffer, <<Denied(affected_range)>>,
                    config.denied_penalty, mem)
       ELSE IF ~RomInFile(config, address, Len(buffer), mem)
       THEN Outcome(TRUE, FALSE, buffer, <<>>, 0, mem)
       ELSE Outcome(FALSE, TRUE,
                    Slice(mem, address - config.assigned_range[1], Len(buffer)),
                    <<>>, config.penalty, mem)

RomWriteMemory(config, debug, address, buffer, mem) ==
    IF DebugAssertFails(debug, Len(buffer))
    THEN Outcome(TRUE, FALSE, buffer, <<>>, 0, mem)
    ELSE Outcome(FALSE, FALSE, buffer, <<Denied(<<address, address + Len(buffer)>>)>>,
                 config.penalty, mem)

RomPreviewMemory(config, address, buffer, mem) ==
    IF ~RomInFile(config, address, Len(buffer), mem)
    THEN Outcome(TRUE, FALSE, buffer, <<>>, 0, mem)
    ELSE Outcome(FALSE, TRUE,
                 Slice(mem, address - config.assigned_range[1], Len(buffer)),
                 <<>>, 0, mem)

\* dyn MemoryComponent: the call goes to the device's own implementation
DeviceCall(op, config, debug, address, buffer, mem) ==
    IF config.kind = "PlainMemory"
    THEN CASE op = "read" -> PlainReadMemory(config, debug, address, buffer, mem)
           [] op = "write" -> PlainWriteMemory(config, debug, address, buffer, mem)
           [] OTHER -> PlainPreviewMemory(config, address, buffer, mem)
    ELSE IF config.kind = "RomMemory"
    THEN CASE op = "read" -> RomReadMemory(config, debug, address, buffer, mem)
           [] op = "write" -> RomWriteMemory(config, debug, address, buffer, mem)
           [] OTHER -> RomPreviewMemory(config, address, buffer, mem)
    ELSE CASE op = "read" -> MirrorReadMemory(config, debug, address, buffer, mem)
           [] op = "write" -> MirrorWriteMemory(config, debug, address, buffer, mem)
           [] OTHER -> MirrorPreviewMemory(config, address, buffer, mem)

(***************************************************************************)
(* MemoryTranslationTable                                                  *)
(***************************************************************************)
\* ArrayVec::<_, 8>, the capacity of to_inspect in read and write
InspectCapacity == 8

\* all components that overlap with target, with their overlapping portions,
\* in the order of self.entries
RECURSIVE OverlapsFrom(_, _, _)
OverlapsFrom(entries, target, i) ==
    IF i > Len(entries) THEN <<>>
    ELSE LET range == entries[i].assigned_range
             overlap_start == Max(range[1], target[1])
             overlap_end == Min(range[2], target[2])
         IN (IF /\ range[1] < target[2] /\ range[2] > target[1]
                /\ overlap_start < overlap_end
             THEN <<[range |-> <<overlap_start, overlap_end>>, device |-> i]>>
             ELSE <<>>)
            \o OverlapsFrom(entries, target, i + 1)

overlapsTwice(entries, target) ==
    OverlapsFrom(entries, target, 1) \o OverlapsFrom(entries, target, 1)

overlaps(entries, target) == OverlapsFrom(entries, target, 1)

\* read and write keep to_inspect in an ArrayVec, preview in a Vec
Overflows(op, inspected) == op # "preview" /\ Len(inspected) > InspectCapacity

Finished(acc, kind, range) ==
    [acc EXCEPT !.pc = "done", !.result = [kind |-> kind, range |-> range]]

\* Ok(cycles) for read and write, Ok(()) for preview
FinishedOk(acc) ==
    [acc EXCEPT !.pc = "done",
                !.result = [kind |-> "Ok",
                            cycles |-> IF acc.op = "preview" THEN 0 ELSE acc.cycles]]

NewAccess(op, offset, buffer, to_inspect) ==
    [pc |-> "loop", op |-> op, offset |-> offset, buffer |-> buffer,
     to_inspect |-> to_inspect, cycles |-> 0, result |-> [kind |-> "none"],
     \* what the access has done so far
     caller_buffer |-> buffer, calls |-> <<>>, filled |-> {}, resolves |-> 0,
     dead_redirect |-> FALSE, denial |-> [at |-> 0, range |-> <<0, 0>>]]

BeginUnchecked(entries, op, offset, buffer) ==
    LET buffer_target_range == <<offset, offset + Len(buffer)>>
        to_inspect == overlaps(entries, buffer_target_range)
        acc == NewAccess(op, offset, buffer, to_inspect)
    IN IF Overflows(op, to_inspect) THEN Finished(acc, "Panic", buffer_target_range)
       ELSE IF to_inspect = <<>> THEN FinishedOk(acc)
       ELSE acc

\* an access up to its while loop: the first overlaps, or OutOfBounds
Begin(entries, op, offset, buffer) ==
    LET buffer_target_range == <<offset, offset + Len(buffer)>>
        to_inspect == overlaps(entries, buffer_target_range)
        acc == NewAccess(op, offset, buffer, to_inspect)
    IN IF Overflows(op, to_inspect) THEN Finished(acc, "Panic", buffer_target_range)
       ELSE IF to_inspect = <<>> THEN Finished(acc, "OutOfBounds", buffer_target_range)
       ELSE acc

\* for (context_range, error) in records: the first Denied returns, every
\* Redirect before it extends to_inspect
RECURSIVE ProcessRecordsIgnoringDenied(_, _, _, _, _)
ProcessRecordsIgnoringDenied(entries, acc, records, i, buffer_len) ==
    IF i > Len(records) THEN acc
    ELSE IF records[i].kind = "Denied"
    THEN ProcessRecordsIgnoringDenied(entries, acc, records, i + 1, buffer_len)
    ELSE LET cropped == relocate_and_crop_range(records[i].range, <<0, buffer_len>>)
             context_range == Shift(cropped, records[i].offset)
             found == overlaps(entries, context_range)
             to_inspect == acc.to_inspect \o found
             next == [acc EXCEPT !.to_inspect = to_inspect,
                                 !.resolves = @ + 1,
                                 !.dead_redirect = @ \/ found = <<>>]
         IN IF Overflows(acc.op, to_inspect)
            THEN Finished(next, "Panic", context_range)
            ELSE ProcessRecordsIgnoringDenied(entries, next, records, i + 1, buffer_len)

RECURSIVE ProcessRecords(_, _, _, _, _)
ProcessRecords(entries, acc, records, i, buffer_len) ==
    IF i > Len(records) THEN acc
    ELSE IF records[i].kind = "Denied"
    THEN Finished(acc, "Denied", records[i].range)
    ELSE LET cropped == relocate_and_crop_range(records[i].range, <<0, buffer_len>>)
             context_range == Shift(cropped, records[i].offset)
             found == overlaps(entries, context_range)
             to_inspect == acc.to_inspect \o found
             next == [acc EXCEPT !.to_inspect = to_inspect,
                                 !.resolves = @ + 1,
                                 !.dead_redirect = @ \/ found = <<>>]
         IN IF Overflows(acc.op, to_inspect)
            THEN Finished(next, "Panic", context_range)
            ELSE ProcessRecords(entries, next, records, i + 1, buffer_len)

\* the position of the first Denied among records, 0 if there is none
RECURSIVE FirstDenied(_, _)
FirstDenied(records, i) ==
    IF i > Len(records) THEN 0
    ELSE IF records[i].kind = "Denied" THEN i ELSE FirstDenied(records, i + 1)

IterateNotCountingRedirects(entries, mems, debug, acc) ==
    LET top == acc.to_inspect[Len(acc.to_inspect)]
        entry_range == top.range
        buffer_subsection == relocate_and_crop_range(entry_range, <<0, Len(acc.buffer)>>)
        slice == Slice(acc.buffer, buffer_subsection[1], RangeLen(buffer_subsection))
        out == DeviceCall(acc.op, entries[top.device], debug, entry_range[1], slice,
                          mems[top.device])
        denied == FirstDenied(out.records, 1)
        called ==
            [acc EXCEPT
                !.to_inspect = SubSeq(acc.to_inspect, 1, Len(acc.to_inspect) - 1),
                !.cycles = @ + (IF out.records = <<>> THEN out.cycles ELSE 0),
                !.buffer = IF out.filled THEN Patch(@, buffer_subsection[1], out.data) ELSE @,
                !.filled = IF out.filled
                           THEN @ \cup (buffer_subsection[1]..(buffer_subsection[2] - 1))
                           ELSE @,
                !.calls = Append(@, [device |-> top.device, range |-> entry_range,
                                     subsection |-> buffer_subsection,
                                     cycles_taken |-> out.cycles]),
                !.denial = IF denied # 0 /\ acc.denial.at = 0
                           THEN [at |-> Len(acc.calls) + 1,
                                 range |-> out.records[denied].range]
                           ELSE @]
        processed ==
            IF out.panic THEN Finished(called, "Panic", entry_range)
            ELSE ProcessRecords(entries, called, out.records, 1, Len(acc.buffer))
    IN [access |-> IF processed.pc = "loop" /\ processed.to_inspect = <<>>
                   THEN FinishedOk(processed)
                   ELSE processed,
        memory |-> [mems EXCEPT ![top.device] = out.mem]]

\* one pass of the while loop: pop an entry, call its device on the buffer
\* subsection, take up its records; Ok once to_inspect is empty
Iterate(entries, mems, debug, acc) ==
    LET top == acc.to_inspect[Len(acc.to_inspect)]
        entry_range == top.range
        buffer_subsection == relocate_and_crop_range(entry_range, <<0, Len(acc.buffer)>>)
        slice == Slice(acc.buffer, buffer_subsection[1], RangeLen(buffer_subsection))
        out == DeviceCall(acc.op, entries[top.device], debug, entry_range[1], slice,
                          mems[top.device])
        denied == FirstDenied(out.records, 1)
        called ==
            [acc EXCEPT
                !.to_inspect = SubSeq(acc.to_inspect, 1, Len(acc.to_inspect) - 1),
                !.cycles = @ + out.cycles,
                !.buffer = IF out.filled THEN Patch(@, buffer_subsection[1], out.data) ELSE @,
                !.filled = IF out.filled
                           THEN @ \cup (buffer_subsection[1]..(buffer_subsection[2] - 1))
                           ELSE @,
                !.calls = Append(@, [device |-> top.device, range |-> entry_range,
                                     subsection |-> buffer_subsection,
                                     cycles_taken |-> out.cycles]),
                !.denial = IF denied # 0 /\ acc.denial.at = 0
                           THEN [at |-> Len(acc.calls) + 1,
                                 range |-> out.records[denied].range]
                           ELSE @]
        processed ==
            IF out.panic THEN Finished(called, "Panic", entry_range)
            ELSE ProcessRecords(entries, called, out.records, 1, Len(acc.buffer))
    IN [access |-> IF processed.pc = "loop" /\ processed.to_inspect = <<>>
                   THEN FinishedOk(processed)
                   ELSE processed,
        memory |-> [mems EXCEPT ![top.device] = out.mem]]

(***************************************************************************)
(* The buses the accesses run on.                                          *)
(***************************************************************************)
MaxAddr == 8
MaxWidth == 4
MaxAccesses == 2
MaxResolves == 10

Ram(range) == PlainMemory(range, TRUE, TRUE, 8)

BusTables ==
    { \* one device, unmapped addresses on both sides
      <<Ram(<<2, 6>>)>>,
      \* adjacent devices
      <<Ram(<<0, 2>>), Ram(<<2, 4>>), Ram(<<4, 8>>)>>,
      \* overlapping registrations: with_memory_map does not refuse them
      <<Ram(<<0, 4>>), Ram(<<2, 6>>)>>,
      \* a device that is not readable, a read-only one, a byte-wide one
      <<Ram(<<0, 2>>), PlainMemory(<<2, 4>>, FALSE, TRUE, 8),
        PlainMemory(<<4, 6>>, TRUE, FALSE, 8), PlainMemory(<<6, 8>>, TRUE, TRUE, 1)>>,
      \* a mirror as large as its target
      <<Ram(<<0, 4>>), MirrorMemory(<<4, 8>>, TRUE, TRUE, <<0, 4>>, Deny)>>,
      \* a mirror tiling its target twice, with one more target size denied
      <<Ram(<<0, 2>>), MirrorMemory(<<2, 8>>, TRUE, TRUE, <<0, 2>>, Wrap(2))>>,
      \* a read-only mirror in Deny mode over a larger range than its target
      <<Ram(<<0, 2>>), MirrorMemory(<<2, 6>>, TRUE, FALSE, <<0, 2>>, Deny)>>,
      \* a tiling mirror whose target does not start at 0
      <<MirrorMemory(<<0, 4>>, TRUE, TRUE, <<4, 6>>, Wrap(2)), Ram(<<4, 6>>)>>,
      \* a mirror of a mirror
      <<Ram(<<0, 2>>), MirrorMemory(<<2, 4>>, TRUE, TRUE, <<0, 2>>, Deny),
        MirrorMemory(<<4, 6>>, TRUE, TRUE, <<2, 4>>, Deny)>>,
      \* a mirror whose target lies in its own assigned range
      <<MirrorMemory(<<0, 4>>, TRUE, TRUE, <<0, 4>>, Deny), Ram(<<4, 6>>)>>,
      \* a mirror whose target no device claims
      <<MirrorMemory(<<0, 2>>, TRUE, TRUE, <<6, 8>>, Deny), Ram(<<2, 4>>)>>,
      \* a ROM next to RAM
      <<Ram(<<0, 2>>), RomMemory(<<2, 6>>, 8)>> }

\* the bytes of a device buffer after construction, all different
InitialContents(entries) ==
    [d \in 1..Len(entries) |->
        IF entries[d].kind \in {"PlainMemory", "RomMemory"}
        THEN [k \in 1..RangeLen(entries[d].assigned_range) |->
                 16 * d + entries[d].assigned_range[1] + k - 1]
        ELSE <<>>]

\* the bytes in the caller's buffer when it calls the bus
CallerBuffer(len) == [i \in 1..len |-> 200 + i]

BusReady == access.pc \in {"idle", "done"} /\ accesses < MaxAccesses

BusCall(op, offset, len) ==
    /\ BusReady
    /\ access' = Begin(table, op, offset, CallerBuffer(len)) @@ [before |-> memory]
    /\ accesses' = accesses + 1
    /\ UNCHANGED <<table, memory, debug_build, held, execVars, mirrorVars, buildVars, chip8Vars>>

BusRead == \E offset \in 0..MaxAddr, len \in WordSizes \cap (1..MaxWidth) :
              BusCall("read", offset, len)

BusWrite == \E offset \in 0..MaxAddr, len \in WordSizes \cap (1..MaxWidth) :
               BusCall("write", offset, len)

BusPreview == \E offset \in 0..MaxAddr, len \in 1..MaxWidth :
                 BusCall("preview", offset, len)

BusIterate ==
    /\ access.pc = "loop"
    /\ access.resolves < MaxResolves
    /\ LET after == Iterate(table, memory, debug_build, access)
       IN /\ access' = after.access
          /\ memory' = after.memory
    /\ UNCHANGED <<table, debug_build, held, accesses, execVars, mirrorVars, buildVars, chip8Vars>>

InitBus ==
    /\ table \in BusTables
    /\ memory = InitialContents(table)
    /\ debug_build \in BOOLEAN
    /\ access = NoAccess
    /\ accesses = 0
    /\ held = {}
    /\ machine = "finalized"
    /\ ExecUnbuilt(<<>>)
    /\ MirrorIdle
    /\ Chip8Idle

NextBus == BusRead \/ BusWrite \/ BusPreview \/ BusIterate

SpecBus == InitBus /\ [][NextBus]_vars

(***************************************************************************)
(* A MirrorMemory called directly, as the bus calls it.                    *)
(***************************************************************************)
MaxTargetSize == 3
MaxCover == 3
MaxWrapCount == 3
MaxTargetStart == 2
MaxAssignedStart == 1

MirrorConfigs ==
    {MirrorMemory(<<a, a + k * n>>, r, w, <<t, t + n>>, mode) :
        a \in 0..MaxAssignedStart, k \in 1..MaxCover, n \in 1..MaxTargetSize,
        r \in BOOLEAN, w \in BOOLEAN, t \in 0..MaxTargetStart,
        mode \in {Deny} \cup {Wrap(c) : c \in 0..MaxWrapCount}}

MirrorCall(op, address, len) ==
    /\ mirror.kind = "MirrorMemory"
    /\ mirror_call = NoCall
    /\ address >= mirror.assigned_range[1]
    /\ address + len <= mirror.assigned_range[2]
    /\ LET out == DeviceCall(op, mirror, FALSE, address, CallerBuffer(len), <<>>)
       IN mirror_call' = [op |-> op, address |-> address, len |-> len,
                          records |-> out.records, cycles |-> out.cycles]
    /\ UNCHANGED <<mirror, execVars, busVars, buildVars, chip8Vars>>

MirrorAddresses == 0..(MaxAssignedStart + MaxCover * MaxTargetSize)

MirrorRead == \E address \in MirrorAddresses, len \in {1, 2} :
                 MirrorCall("read", address, len)

MirrorWrite == \E address \in MirrorAddresses, len \in {1, 2} :
                  MirrorCall("write", address, len)

MirrorPreview == \E address \in MirrorAddresses, len \in {1, 2} :
                    MirrorCall("preview", address, len)

InitMirror ==
    /\ mirror \in MirrorConfigs
    /\ mirror_call = NoCall
    /\ ExecUnbuilt(<<>>)
    /\ BusIdle
    /\ machine = "building"
    /\ Chip8Idle

NextMirror == MirrorRead \/ MirrorWrite \/ MirrorPreview

SpecMirror == InitMirror /\ [][NextMirror]_vars

(***************************************************************************)
(* SingleThreadedExecutor::new                                             *)
(***************************************************************************)
New ==
    /\ ~built
    /\ LET t == find_component_timings(ratios)
       IN /\ tasks' = t.task_tick_rates
          /\ rollover_tick' = t.rollover_tick
          /\ tick_real_time' = t.tick_real_time
          /\ ticked' = [i \in 1..Len(ratios) |-> 0]
    /\ built' = TRUE
    /\ current_tick' = 0
    /\ timestamp' = clock
    /\ UNCHANGED <<ratios, running, wraps, clock, period, start_time, last_increment, issued,
                   mirrorVars, busVars, buildVars, chip8Vars>>

(***************************************************************************)
(* SingleThreadedExecutor::increment_tick.  wraps counts the passes of the *)
(* rollover boundary.                                                      *)
(***************************************************************************)
increment_tick(amount) ==
    /\ current_tick' = (current_tick + amount) % rollover_tick
    /\ last_increment' = amount
    /\ timestamp' = IF (current_tick + amount) % rollover_tick < current_tick
                    THEN clock ELSE timestamp
    /\ wraps' = IF current_tick + amount >= rollover_tick THEN wraps + 1 ELSE wraps

(***************************************************************************)
(* SingleThreadedExecutor::run, one action per way through the loop body.  *)
(***************************************************************************)
\* current_tick % tick_rate of task i
run_indication(i) == current_tick % tasks[i]

SortsBeforeByRate(i, j) ==
    \/ run_indication(i) < run_indication(j)
    \/ run_indication(i) = run_indication(j) /\ tasks[i] < tasks[j]
    \/ run_indication(i) = run_indication(j) /\ tasks[i] = tasks[j] /\ i < j

\* sorted_by_key is a stable sort: ties keep the order of self.tasks
SortsBefore(i, j) ==
    \/ run_indication(i) < run_indication(j)
    \/ run_indication(i) = run_indication(j) /\ i < j

to_run ==
    [p \in 1..Len(tasks) |->
        CHOOSE i \in 1..Len(tasks) :
            Cardinality({j \in 1..Len(tasks) : SortsBefore(j, i)}) = p - 1]

\* period.saturating_sub(now - start_time), with now = clock
runtime_assigned_time_left == Max(period - (clock - start_time), 0)

\* simulated_time > real_time: current_tick * tick_real_time seconds against
\* (now - self.timestamp) / ClockHz seconds
AheadOfTime ==
    current_tick * numer(tick_real_time) * ClockHz
        > (clock - timestamp) * denom(tick_real_time)

BreakIfBudgetIsSpent == runtime_assigned_time_left = 0

\* the two break conditions at the head of the loop
Break == runtime_assigned_time_left = 0 \/ AheadOfTime

\* floor(time left / tick_real_time) clamped to
\* [1, max(rollover_tick - current_tick, 1)]
max_batch_size_without_rollover ==
    Max((runtime_assigned_time_left * denom(tick_real_time))
            \div (ClockHz * numer(tick_real_time)), 1)

max_batch_size ==
    Min(Max((runtime_assigned_time_left * denom(tick_real_time))
                \div (ClockHz * numer(tick_real_time)), 1),
        Max(rollover_tick - current_tick, 1))

Tick(i, batch_size) ==
    /\ ticked' = [ticked EXCEPT ![i] = @ + batch_size]
    /\ issued' = <<i>>

InLoop == built /\ running /\ ~Break /\ wraps < MaxWraps

\* run is called with some period
RunEnter ==
    /\ built /\ ~running
    /\ running' = TRUE
    /\ \E p \in 0..MaxPeriod : period' = p
    /\ start_time' = clock
    /\ UNCHANGED <<ratios, built, tasks, rollover_tick, tick_real_time, current_tick,
                   ticked, wraps, clock, timestamp, last_increment, issued,
                   mirrorVars, busVars, buildVars, chip8Vars>>

\* no time budget is left, or the simulation is ahead of real time
RunBreak ==
    /\ built /\ running
    /\ Break
    /\ running' = FALSE
    /\ UNCHANGED <<ratios, built, tasks, rollover_tick, tick_real_time, current_tick,
                   ticked, wraps, clock, period, start_time, timestamp, last_increment, issued,
                   mirrorVars, busVars, buildVars, chip8Vars>>

\* the wall clock advances
Elapse ==
    /\ clock < MaxClock
    /\ clock' = clock + 1
    /\ UNCHANGED <<ratios, built, tasks, rollover_tick, tick_real_time, current_tick,
                   running, ticked, wraps, period, start_time, timestamp, last_increment, issued,
                   mirrorVars, busVars, buildVars, chip8Vars>>

\* to_run.is_empty() || to_run[0].1 != 0
RunNoneDue ==
    /\ InLoop
    /\ Len(tasks) = 0 \/ run_indication(to_run[1]) # 0
    /\ increment_tick(1)
    /\ issued' = <<>>
    /\ UNCHANGED <<ratios, built, tasks, rollover_tick, tick_real_time, running,
                   ticked, clock, period, start_time,
                   mirrorVars, busVars, buildVars, chip8Vars>>

\* to_run.len() == 1
RunSingleTask ==
    /\ InLoop
    /\ Len(tasks) = 1
    /\ run_indication(to_run[1]) = 0
    /\ Tick(to_run[1], max_batch_size \div tasks[to_run[1]])
    /\ increment_tick(max_batch_size)
    /\ UNCHANGED <<ratios, built, tasks, rollover_tick, tick_real_time, running,
                   clock, period, start_time,
                   mirrorVars, busVars, buildVars, chip8Vars>>

RunAllDueTickingFirst ==
    /\ InLoop
    /\ Len(tasks) > 1
    /\ run_indication(to_run[1]) = 0
    /\ \E p \in 2..Len(tasks) : run_indication(to_run[p]) = 0
    /\ Tick(to_run[1], 1)
    /\ increment_tick(1)
    /\ UNCHANGED <<ratios, built, tasks, rollover_tick, tick_real_time, running,
                   clock, period, start_time,
                   mirrorVars, busVars, buildVars, chip8Vars>>

\* time slicing not possible: several tasks are due
RunAllDue ==
    /\ InLoop
    /\ Len(tasks) > 1
    /\ run_indication(to_run[1]) = 0
    /\ \E p \in 2..Len(tasks) : run_indication(to_run[p]) = 0
    /\ ticked' = [i \in 1..Len(tasks) |->
                    IF run_indication(i) = 0 THEN ticked[i] + 1 ELSE ticked[i]]
    /\ issued' = SelectSeq(to_run, LAMBDA i : run_indication(i) = 0)
    /\ increment_tick(1)
    /\ UNCHANGED <<ratios, built, tasks, rollover_tick, tick_real_time, running,
                   clock, period, start_time,
                   mirrorVars, busVars, buildVars, chip8Vars>>

\* We can batch normally here
RunBatch ==
    /\ InLoop
    /\ Len(tasks) > 1
    /\ run_indication(to_run[1]) = 0
    /\ \A p \in 2..Len(tasks) : run_indication(to_run[p]) # 0
    /\ LET batch_size ==
                Min(tasks[to_run[2]] - run_indication(to_run[2]), max_batch_size)
            normalized_batch_size == batch_size \div tasks[to_run[1]]
       IN /\ Tick(to_run[1], normalized_batch_size)
          /\ increment_tick(batch_size)
    /\ UNCHANGED <<ratios, built, tasks, rollover_tick, tick_real_time, running,
                   clock, period, start_time,
                   mirrorVars, busVars, buildVars, chip8Vars>>

InitTimings ==
    /\ \E rs \in SeqsUpTo(TimingRatios, MaxRatios) : ExecUnbuilt(rs)
    /\ MirrorIdle
    /\ BusIdle
    /\ machine = "building"
    /\ Chip8Idle

SpecTimings == InitTimings /\ [][New]_vars


InitExec ==
    /\ \E rs \in SeqsUpTo(ExecRatios, MaxExecTasks) : ExecUnbuilt(rs)
    /\ MirrorIdle
    /\ BusIdle
    /\ machine = "finalized"
    /\ Chip8Idle

NextExec ==
    \/ New
    \/ RunEnter
    \/ RunBreak
    \/ Elapse
    \/ RunNoneDue
    \/ RunSingleTask
    \/ RunAllDue
    \/ RunBatch

SpecExec == InitExec /\ [][NextExec]_vars

(***************************************************************************)
(* Claims about find_component_timings (SpecTimings).                      *)
(***************************************************************************)
CommonMultipleOf(x, S) == \A s \in S : x % s = 0

\* x is the least positive common multiple of the positive integers S;
\* every common multiple is a multiple of the largest element s0
LeastCommonMultipleOf(x, S) ==
    /\ x > 0
    /\ CommonMultipleOf(x, S)
    /\ LET s0 == CHOOSE s \in S : \A t \in S : t <= s
       IN \A k \in 1..(x \div s0) : k * s0 < x => ~CommonMultipleOf(k * s0, S)

Range(f) == {f[i] : i \in DOMAIN f}

C7_ScheduleIsExact ==
    built =>
        /\ \A i \in DOMAIN tasks :
              /\ tasks[i] > 0
              /\ rollover_tick % tasks[i] = 0
              /\ tasks[i] * numer(tick_real_time) * numer(ratios[i])
                    = denom(tick_real_time) * denom(ratios[i])
        /\ (rollover_tick * numer(tick_real_time)) % denom(tick_real_time) = 0

C7_Witness ==
    /\ built
    /\ ratios = <<<<Chip8TimerRate, 1>>, <<Chip8ProcessorRate, 1>>, <<Chip8TimerRate, 1>>>>
    /\ rollover_tick = 2100
    /\ tasks = <<35, 3, 35>>
    /\ tick_real_time = <<1, 2100>>

(***************************************************************************)
(* Claims about SingleThreadedExecutor::run (SpecExec).                    *)
(***************************************************************************)
\* C1: when current_tick has gone through a full rollover period, every
\* task has been ticked rollover_tick / local_rate times per period.
C1_EveryDueTickIsRun ==
    (built /\ current_tick = 0) =>
        \A i \in DOMAIN tasks : ticked[i] = wraps * (rollover_tick \div tasks[i])

(***************************************************************************)
(* Claims about MirrorMemory (SpecMirror).                                 *)
(***************************************************************************)
\* C5: in Wrap(w) mode (w >= 1) over a target of size N, a 1-byte read or write at
\* offset o of the assigned range is redirected to target.start + (o mod N)
\* if o < w * N and is Denied otherwise.
C5_WrapRedirectsModuloTarget ==
    (/\ mirror_call.op \in {"read", "write"}
     /\ mirror_call.len = 1
     /\ mirror.overflow_mode.kind = "Wrap"
     /\ mirror.overflow_mode.n >= 1
     /\ IF mirror_call.op = "read" THEN mirror.readable ELSE mirror.writable)
    => LET N == RangeLen(mirror.target)
           w == mirror.overflow_mode.n
           o == mirror_call.address - mirror.assigned_range[1]
           affected == <<mirror_call.address, mirror_call.address + 1>>
       IN mirror_call.records =
              IF o < w * N
              THEN <<Redirect(affected, mirror.target[1] + (o % N))>>
              ELSE <<Denied(affected)>>

(***************************************************************************)
(* Claims about MemoryTranslationTable (SpecBus).                          *)
(***************************************************************************)
AccessStarted == access.pc \in {"loop", "done"}
AccessDone == access.pc = "done"
TargetRange == <<access.offset, access.offset + Len(access.caller_buffer)>>
TargetAddresses == TargetRange[1]..(TargetRange[2] - 1)
Claimants(a) ==
    {d \in 1..Len(table) :
        table[d].assigned_range[1] <= a /\ a < table[d].assigned_range[2]}

\* the byte a PlainMemory holds for absolute address a
StoredAt(a) ==
    LET d == CHOOSE d \in Claimants(a) : TRUE
    IN memory[d][a - table[d].assigned_range[1] + 1]

\* C2: a bus read or write re-resolves redirects at most 8 times.
C2_AtMostEightResolutions ==
    (AccessStarted /\ access.op \in {"read", "write"})
    => access.resolves <= InspectCapacity

\* C3: a read or write whose target range is only partly covered by
\* registered devices does not return success; with a single registered
\* device it returns OutOfBounds.
C3_PartialCoverFails ==
    (/\ AccessDone
     /\ access.op \in {"read", "write"}
     /\ \E a \in TargetAddresses : Claimants(a) = {}
     /\ \E a \in TargetAddresses : Claimants(a) # {})
    => /\ access.result.kind # "Ok"
       /\ Len(table) = 1 => access.result.kind = "OutOfBounds"

\* C4: in a successful read or write that spans two or more devices each
\* device with overlap [s, e) is handed the buffer positions [s-o, e-o);
\* a read leaves buffer[i] = the byte stored at o+i, a write leaves the byte
\* stored at o+i = buffer[i].
C4_SpanningAccessKeepsPositions ==
    (/\ AccessDone
     /\ access.op \in {"read", "write"}
     /\ access.result.kind = "Ok"
     /\ Len(overlaps(table, TargetRange)) >= 2
     /\ \A a \in TargetAddresses :
           /\ Cardinality(Claimants(a)) = 1
           /\ \A d \in Claimants(a) : table[d].kind = "PlainMemory")
    => /\ \A c \in 1..Len(access.calls) :
             access.calls[c].subsection = Shift(access.calls[c].range, 0 - access.offset)
       /\ \A i \in 1..Len(access.buffer) :
             StoredAt(access.offset + i - 1) =
                 IF access.op = "read" THEN access.buffer[i] ELSE access.caller_buffer[i]

\* C8: an access whose target range intersects no registered range returns
\* OutOfBounds with that range, calls no device and changes neither a
\* device nor the caller's buffer.
C8_NoOverlapIsOutOfBounds ==
    (AccessDone /\ \A a \in TargetAddresses : Claimants(a) = {})
    => /\ access.result = [kind |-> "OutOfBounds", range |-> TargetRange]
       /\ access.calls = <<>>
       /\ memory = access.before
       /\ access.buffer = access.caller_buffer

\* an unmapped preview after a write changed a device
C8_Witness ==
    /\ AccessDone
    /\ access.op = "preview"
    /\ access.result.kind = "OutOfBounds"
    /\ \A a \in TargetAddresses : Claimants(a) = {}
    /\ memory # InitialContents(table)

\* C9: once a device has emitted a Denied record the access has returned
\* Denied with that record's range, with no device called after it and
\* no cycle cost in the result.
C9_DeniedAborts ==
    (AccessStarted /\ access.denial.at # 0)
    => /\ AccessDone
       /\ access.result.kind = "Denied"
       /\ access.result.range = access.denial.range
       /\ Len(access.calls) = access.denial.at
       /\ "cycles" \notin DOMAIN access.result

\* a device denies while another entry is still waiting on to_inspect
C9_Witness ==
    /\ AccessDone
    /\ access.denial.at # 0
    /\ access.result.kind = "Denied"
    /\ access.to_inspect # <<>>

\* C10: an access with a Redirect into a range no device claims returns
\* OutOfBounds (unless it was denied), and a read of a range whose every
\* address is claimed returns Ok only with every byte of the caller's
\* buffer filled.
C10_NothingSilentlyAbsorbed ==
    AccessDone
    => /\ (access.dead_redirect /\ access.result.kind \in {"Ok", "OutOfBounds"})
              => access.result.kind = "OutOfBounds"
       /\ (/\ access.op = "read"
           /\ access.result.kind = "Ok"
           /\ \A a \in TargetAddresses : Claimants(a) # {})
              => access.filled = 0..(Len(access.buffer) - 1)

NoRedirectingDevice == \A d \in 1..Len(table) : table[d].kind # "MirrorMemory"

PairwiseDisjoint ==
    \A d, e \in 1..Len(table) :
        d # e => \/ table[d].assigned_range[2] <= table[e].assigned_range[1]
                 \/ table[e].assigned_range[2] <= table[d].assigned_range[1]

Covering(d) ==
    /\ table[d].assigned_range[1] <= TargetRange[1]
    /\ TargetRange[2] <= table[d].assigned_range[2]

\* C11: over pairwise disjoint devices none of which redirects, a read or
\* write of width 1, 2, 4 or 8 whose target range lies inside the range of
\* one device calls that device once with the whole target range and no
\* other device, and the work stack never holds more than 8 entries.
C11_OneDeviceOnce ==
    \A d \in 1..Len(table) :
        (/\ AccessStarted
         /\ access.op \in {"read", "write"}
         /\ Len(access.caller_buffer) \in WordSizes
         /\ NoRedirectingDevice
         /\ PairwiseDisjoint
         /\ Covering(d))
        => /\ Len(access.to_inspect) <= InspectCapacity
           /\ access.result.kind # "Panic"
           /\ IF AccessDone
              THEN /\ Len(access.calls) = 1
                   /\ access.calls[1].device = d
                   /\ access.calls[1].range = TargetRange
              ELSE /\ access.calls = <<>>
                   /\ access.to_inspect = <<[range |-> TargetRange, device |-> d]>>

\* a two byte read served by the middle one of three adjacent devices
C11_Witness ==
    /\ AccessDone
    /\ access.op = "read"
    /\ access.result.kind = "Ok"
    /\ Len(table) = 3
    /\ NoRedirectingDevice /\ PairwiseDisjoint
    /\ TargetRange = <<2, 4>>
    /\ Covering(2)
    /\ Len(access.calls) = 1 /\ access.calls[1].device = 2

\* C13: a bus preview leaves the buffer of every device as it was when the
\* preview was called, so no later read sees a difference.
C13_PreviewChangesNoDevice ==
    (AccessStarted /\ access.op = "preview") => memory = access.before

\* a preview that filled its buffer from PlainMemory, after a write
C13_Witness ==
    /\ AccessDone
    /\ access.op = "preview"
    /\ access.result.kind = "Ok"
    /\ access.filled # {}
    /\ \A d \in 1..Len(table) : table[d].kind = "PlainMemory"
    /\ memory # InitialContents(table)

ReadOnlyDevice(d) ==
    \/ table[d].kind = "RomMemory"
    \/ table[d].kind = "PlainMemory" /\ ~table[d].writable

\* C18: a bus write whose target range touches a RomMemory or a PlainMemory
\* that is not writable returns Denied, and such a device always holds its
\* initial contents.
C18_ReadOnlyWritesDenied ==
    /\ \A d \in 1..Len(table) :
          ReadOnlyDevice(d) => memory[d] = InitialContents(table)[d]
    /\ (/\ AccessDone
        /\ access.op = "write"
        /\ \E a \in TargetAddresses : \E d \in Claimants(a) : ReadOnlyDevice(d))
       => access.result.kind = "Denied"

(***************************************************************************)
(* MachineBuilder: components are mapped onto the bus one by one, then the *)
(* machine is finalized.                                                   *)
(***************************************************************************)
MaxMapAddr == 4
MaxMapped == 3

\* the assigned ranges a memory component may be configured with
MapRanges == {r \in (0..MaxMapAddr) \X (0..MaxMapAddr) : r[1] < r[2]}

\* ComponentBuilder::with_memory_map: MemoryTranslationTable::insert pushes
\* the entry
with_memory_map ==
    /\ machine = "building"
    /\ Len(table) < MaxMapped
    /\ \E range \in MapRanges :
          /\ table' = Append(table, Ram(range))
          /\ memory' = InitialContents(table')
    /\ UNCHANGED <<debug_build, held, access, accesses, machine, execVars, mirrorVars,
                   chip8Vars>>

finalize_machine ==
    /\ machine = "building"
    /\ machine' = "finalized"
    /\ UNCHANGED <<busVars, execVars, mirrorVars, chip8Vars>>

InitBuild ==
    /\ machine = "building"
    /\ BusIdle
    /\ ExecUnbuilt(<<>>)
    /\ MirrorIdle
    /\ Chip8Idle

NextBuild == with_memory_map \/ finalize_machine

SpecBuild == InitBuild /\ [][NextBuild]_vars

\* C12: the bus of a finalized machine holds no two entries whose ranges
\* intersect (registering an overlapping device fails the construction).
C12_FinalizedBusIsDisjoint ==
    machine = "finalized" => PairwiseDisjoint

(***************************************************************************)
(* decode_instruction.  instruction.view_bits::<Msb0>() is the sixteen     *)
(* bits of the two bytes, each byte most significant bit first; a decoded  *)
(* instruction is a record with its mnemonic in op.                        *)
(***************************************************************************)
Bits(byte) == [i \in 1..8 |-> (byte \div (2 ^ (8 - i))) % 2]
view_bits(bytes) == Bits(bytes[1]) \o Bits(bytes[2])

\* the bits from..to of the view (from counted from 0, to excluded) read as
\* one number, the first bit the most significant
RECURSIVE BitsValue(_, _, _)
BitsValue(view, from, to) ==
    IF from >= to THEN 0 ELSE 2 * BitsValue(view, from, to - 1) + view[to]

\* BitField::load on bits of a single byte
load(view, from, to) == BitsValue(view, from, to)

load_le(view, from, to) ==
    IF from < 8 /\ to > 8
    THEN BitsValue(view, from, 8) + (2 ^ (8 - from)) * BitsValue(view, 8, to)
    ELSE BitsValue(view, from, to)

\* BitField::load_be over both bytes: the first byte holds the high bits
load_be(view, from, to) ==
    IF from < 8 /\ to > 8
    THEN BitsValue(view, from, 8) * (2 ^ (to - 8)) + BitsValue(view, 8, to)
    ELSE BitsValue(view, from, to)

Unimplemented == [op |-> "unimplemented"]

decode_instruction(bytes) ==
    LET instruction_view == view_bits(bytes)
        top == load(instruction_view, 0, 4)
        nnn == load_be(instruction_view, 4, 16)
        x == load(instruction_view, 4, 8)
        y == load(instruction_view, 8, 12)
        n == load(instruction_view, 12, 16)
        nn == load(instruction_view, 8, 16)
    IN CASE top = 0 -> [op |-> "Sys", syscall |-> nnn]
         [] top = 1 -> [op |-> "Jump", address |-> nnn]
         [] top = 2 -> [op |-> "Call", address |-> nnn]
         [] top = 3 -> [op |-> "Ske", register |-> x, immediate |-> nn]
         [] top = 4 -> [op |-> "Skne", register |-> x, immediate |-> nn]
         [] top = 5 -> [op |-> "Skre", param_register_1 |-> x, param_register_2 |-> y]
         [] top = 6 -> [op |-> "Load", register |-> x, immediate |-> nn]
         [] top = 7 -> [op |-> "Add", register |-> x, immediate |-> nn]
         [] top = 8 ->
              CASE n = 0 -> [op |-> "Move", param_register_1 |-> x, param_register_2 |-> y]
                [] n = 1 -> [op |-> "Or", destination |-> x, source |-> y]
                [] n = 2 -> [op |-> "And", destination |-> x, source |-> y]
                [] n = 3 -> [op |-> "Xor", destination |-> x, source |-> y]
                [] n = 4 -> [op |-> "Addr", destination |-> x, source |-> y]
                [] n = 5 -> [op |-> "Sub", destination |-> x, source |-> y]
                [] n = 6 -> [op |-> "Shr", register |-> x, value |-> y]
                [] n = 7 -> [op |-> "Subn", destination |-> x, source |-> y]
                [] n = 14 -> [op |-> "Shl", register |-> x, value |-> y]
                [] OTHER -> Unimplemented
         [] top = 9 ->
              IF n = 0
              THEN [op |-> "Skrne", param_register_1 |-> x, param_register_2 |-> y]
              ELSE Unimplemented
         [] top = 10 -> [op |-> "Loadi", value |-> nnn]
         [] top = 11 -> [op |-> "Jumpi", address |-> nnn]
         [] top = 12 -> [op |-> "Rand", register |-> x, immediate |-> nn]
         [] top = 13 -> [op |-> "Draw", x |-> x, y |-> y, height |-> n]
         [] top = 14 ->
              CASE nn = 158 -> [op |-> "Skpr", key |-> x]
                [] nn = 161 -> [op |-> "Skup", key |-> x]
                [] OTHER -> Unimplemented
         [] OTHER ->
              CASE nn = 7 -> [op |-> "Moved", register |-> x]
                [] nn = 10 -> [op |-> "Keyd", key |-> x]
                [] nn = 21 -> [op |-> "Loadd", register |-> x]
                [] nn = 24 -> [op |-> "Loads", register |-> x]
                [] nn = 30 -> [op |-> "Addi", register |-> x]
                [] nn = 41 -> [op |-> "Font", register |-> x]
                [] nn = 51 -> [op |-> "Bcd", register |-> x]
                [] nn = 85 -> [op |-> "Save", count |-> x]
                [] nn = 101 -> [op |-> "Restore", count |-> x]
                [] OTHER -> Unimplemented

\* decode_instruction called on any two bytes
Decode ==
    /\ decoded = NoInstruction
    /\ decoded' = decode_instruction(instruction)
    /\ UNCHANGED <<program_pointer, stack, registers, execution_state, controller,
                   remaining, position, executed, bus_traffic, last_wait, instruction,
                   processor_config, delay_timer, loadd, batch,
                   execVars, mirrorVars, busVars, buildVars>>

InitDecode ==
    /\ instruction \in (0..255) \X (0..255)
    /\ decoded = NoInstruction
    /\ program_pointer = 0
    /\ stack = <<>>
    /\ registers = [work_registers |-> <<>>, index |-> 0]
    /\ execution_state = Normal
    /\ processor_config = [kind |-> "Chip8"]
    /\ delay_timer = 0
    /\ loadd = NoLoadd
    /\ batch = NoBatch
    /\ controller = {}
    /\ remaining = 0
    /\ position = "idle"
    /\ executed = 0
    /\ bus_traffic = 0
    /\ last_wait = NoWait
    /\ machine = "building"
    /\ ExecUnbuilt(<<>>)
    /\ MirrorIdle
    /\ BusIdle

SpecDecode == InitDecode /\ [][Decode]_vars

\* C20: the word 0x0NNN decodes to Sys{syscall: NNN} and the word 0x6XNN to
\* Load{register: VX, immediate: NN}, the first byte being the high byte.
C20_DecodesSysAndLoad ==
    decoded # NoInstruction =>
        LET word == instruction[1] * 256 + instruction[2]
        IN /\ word \div 4096 = 0 => decoded = [op |-> "Sys", syscall |-> word % 4096]
           /\ word \div 4096 = 6 =>
                 decoded = [op |-> "Load", register |-> (word \div 256) % 16,
                            immediate |-> word % 256]

\* the bytes 0x60 0xAB give Load{V0, 0xAB}
C20_Witness ==
    /\ instruction = <<96, 171>>
    /\ decoded = [op |-> "Load", register |-> 0, immediate |-> 171]

\* the words whose trailing nibbles match no CHIP-8 instruction of their group
Unrecognized(word) ==
    LET group == word \div 4096
        n == word % 16
        nn == word % 256
    IN \/ group = 5 /\ n # 0
       \/ group = 8 /\ n \in (8..13) \cup {15}
       \/ group = 9 /\ n # 0
       \/ group = 14 /\ nn \notin {158, 161}
       \/ group = 15 /\ nn \notin {7, 10, 21, 24, 30, 41, 51, 85, 101}

\* C27: decode_instruction yields the unimplemented-instruction condition
\* exactly for the words whose trailing nibbles match no instruction of
\* their group (5XYn with n # 0, 8XYn with n in 8..D or F, 9XYn with n # 0,
\* EXnn other than 9E and A1, FXnn other than the nine known), and an
\* instruction for every other word
C27_UnrecognizedIsUnimplemented ==
    decoded # NoInstruction =>
        (decoded = Unimplemented
            <=> Unrecognized(instruction[1] * 256 + instruction[2]))

(***************************************************************************)
(* The CHIP-8 machine of other_chip8: the processor, its gamepad and the   *)
(* two PlainMemory components on the bus.                                  *)
(***************************************************************************)
MaxKey == 1
MaxBatch == 2
MaxInstructions == 5

\* ProcessorTaskConfig::initial_program_pointer of the machine definition
initial_program_pointer == 512
\* ArrayVec<u16, 16>
StackCapacity == 16
\* the end of work_memory
Chip8MemoryEnd == 4096

\* system_memory and work_memory: word size 2, no cycle penalties
Chip8Memory(range) ==
    [PlainMemory(range, TRUE, TRUE, 2) EXCEPT !.penalty = 0, !.denied_penalty = 0]

Chip8Table ==
    <<Chip8Memory(<<0, initial_program_pointer>>),
      Chip8Memory(<<initial_program_pointer, Chip8MemoryEnd>>)>>

\* the buffers after initialize_internal_buffer: the ROM is copied to the
\* start of work_memory, the rest is zero (the font bytes of system_memory
\* are read by no program below and are left zero)
Chip8Contents(rom) ==
    <<[k \in 1..initial_program_pointer |-> 0],
      [k \in 1..(Chip8MemoryEnd - initial_program_pointer) |->
          IF k <= Len(rom) THEN rom[k] ELSE 0]>>

Word(w) == <<w \div 256, w % 256>>

\* the ROMs the user may specify
Roms ==
    { \* wait for a key in V1, load V2, start over
      Word(\hF10A) \o Word(\h6207) \o Word(\h1200),
      \* load V1, return with an empty call stack
      Word(\h6105) \o Word(\h00EE),
      \* call 0x204, (0x202) wait for a key in V0, (0x204) return
      Word(\h2204) \o Word(\hF00A) \o Word(\h00EE),
      \* two waits in a row, in V0 and V1
      Word(\hF00A) \o Word(\hF10A),
      \* load V0 with 1, skip if key V0 is pressed, start over, wait in V2
      Word(\h6001) \o Word(\hE09E) \o Word(\h1200) \o Word(\hF20A),
      \* load V0, unknown syscall, skip if V0 = 0xAB, add to V0, load index
      Word(\h60AB) \o Word(\h0000) \o Word(\h30AB) \o Word(\h7001) \o Word(\hA123) }

\* MemoryTranslationTable::read and write run to their return
RECURSIVE Complete(_, _, _, _)
Complete(entries, mems, debug, acc) ==
    IF acc.pc = "done" THEN [access |-> acc, memory |-> mems]
    ELSE CHOOSE done \in { Complete(entries, after.memory, debug, after.access) :
                              after \in {Iterate(entries, mems, debug, acc)} } : TRUE

read(entries, mems, debug, offset, buffer) ==
    Complete(entries, mems, debug, Begin(entries, "read", offset, buffer))

write(entries, mems, debug, offset, buffer) ==
    Complete(entries, mems, debug, Begin(entries, "write", offset, buffer))

(***************************************************************************)
(* Chip8Processor::tick: the polling of the gamepad.  found is the key     *)
(* that iter_pressed().find_map() yields: the HashMap behind the gamepad   *)
(* iterates in no fixed order, so any pressed key.                         *)
(***************************************************************************)
AwaitingKeyPress(register) == [kind |-> "AwaitingKeyPress", register |-> register]
AwaitingKeyRelease(register, key) ==
    [kind |-> "AwaitingKeyRelease", register |-> register, key |-> key]

Polled(st, regs) == [execution_state |-> st, registers |-> regs]

Chip8TickReturningOnPress(st, regs, pressed, found) ==
    IF st.kind = "AwaitingKeyPress" /\ found \in pressed
    THEN Polled(Normal, [regs EXCEPT !.work_registers[st.register] = found])
    ELSE Polled(st, regs)

Chip8TickWithoutStore(st, regs, pressed, found) ==
    CASE st.kind = "AwaitingKeyPress" /\ found \in pressed ->
            Polled(AwaitingKeyRelease(st.register, found), regs)
      [] st.kind = "AwaitingKeyRelease" /\ st.key \notin pressed ->
            Polled(Normal, regs)
      [] OTHER -> Polled(st, regs)

Chip8Tick(st, regs, pressed, found) ==
    CASE st.kind = "AwaitingKeyPress" /\ found \in pressed ->
            Polled(AwaitingKeyRelease(st.register, found), regs)
      [] st.kind = "AwaitingKeyRelease" /\ st.key \notin pressed ->
            Polled(Normal, [regs EXCEPT !.work_registers[st.register] = st.key])
      [] OTHER -> Polled(st, regs)

\* what iter_pressed().find_map() may yield; -1 stands for None
find_map(pressed) == IF pressed = {} THEN {-1} ELSE pressed

should_execution_occur_always(st) == TRUE

should_execution_occur(st) == st = Normal

(***************************************************************************)
(* Chip8Processor::interpret_instruction, for the instructions of the ROMs *)
(* above.  program_pointer is already past the instruction.                *)
(***************************************************************************)
Interpreted(pp, stk, regs, st, panic) ==
    [program_pointer |-> pp, stack |-> stk, registers |-> regs,
     execution_state |-> st, panic |-> panic]

SysReturnUnderflowKeeps(pp, stk, regs, st) ==
    IF stk # <<>>
    THEN Interpreted(stk[Len(stk)], SubSeq(stk, 1, Len(stk) - 1), regs, st, FALSE)
    ELSE Interpreted(pp, stk, regs, st, FALSE)

\* syscall 0x0ee: pop the return address, or log the underflow and go to 0x200
SysReturn(pp, stk, regs, st) ==
    IF stk # <<>>
    THEN Interpreted(stk[Len(stk)], SubSeq(stk, 1, Len(stk) - 1), regs, st, FALSE)
    ELSE Interpreted(512, stk, regs, st, FALSE)

\* whether the key whose code is in register key is pressed
KeyValue(regs, key, pressed) == regs.work_registers[key] \in pressed

\* u8::overflowing_add and u8::overflowing_sub
overflowing_add_without_carry(a, b) == [value |-> (a + b) % 256, overflow |-> FALSE]

overflowing_add(a, b) == [value |-> (a + b) % 256, overflow |-> a + b > 255]

overflowing_sub_borrowing_on_equal(a, b) ==
    [value |-> (a - b + 256) % 256, overflow |-> a <= b]

overflowing_sub(a, b) == [value |-> (a - b + 256) % 256, overflow |-> a < b]

\* bool as u8
as_u8(b) == IF b THEN 1 ELSE 0

\* work_registers[destination] = value, then work_registers[0xf] = flag
WithFlag(regs, destination, value, flag) ==
    [[regs EXCEPT !.work_registers[destination] = value]
        EXCEPT !.work_registers[15] = flag]

\* the operand of Shr and Shl
ShiftOperandInPlace(kind, regs, register, value) == regs.work_registers[register]

ShiftOperand(kind, regs, register, value) ==
    IF kind = "Chip8" THEN regs.work_registers[value]
    ELSE regs.work_registers[register]

\* self.stack.push(*program_pointer as u16)
PushedCallAddress(stk, pp) == Append(stk, (pp - 2) % 65536)

Pushed(stk, pp) == Append(stk, pp % 65536)

\* the register Jumpi adds: V0, or the one named by bits 4..8 of the address
JumpiRegisterZero(kind, address) == 0

JumpiRegister(kind, address) ==
    IF kind = "Chip8" THEN 0 ELSE (address \div 256) % 16

interpret_instruction(kind, pp, ins, stk, regs, st, pressed) ==
    CASE ins.op = "Sys" ->
            IF ins.syscall = 238 THEN SysReturn(pp, stk, regs, st)
            ELSE Interpreted(pp, stk, regs, st, FALSE)
      [] ins.op = "Jump" -> Interpreted(ins.address, stk, regs, st, FALSE)
      [] ins.op = "Call" ->
            IF Len(stk) >= StackCapacity
            THEN Interpreted(pp, stk, regs, st, TRUE)
            ELSE Interpreted(ins.address, Pushed(stk, pp), regs, st, FALSE)
      [] ins.op = "Ske" ->
            Interpreted(IF regs.work_registers[ins.register] = ins.immediate
                        THEN pp + 2 ELSE pp, stk, regs, st, FALSE)
      [] ins.op = "Skne" ->
            Interpreted(IF regs.work_registers[ins.register] # ins.immediate
                        THEN pp + 2 ELSE pp, stk, regs, st, FALSE)
      [] ins.op = "Load" ->
            Interpreted(pp, stk,
                        [regs EXCEPT !.work_registers[ins.register] = ins.immediate],
                        st, FALSE)
      [] ins.op = "Add" ->
            Interpreted(pp, stk,
                        [regs EXCEPT !.work_registers[ins.register] =
                                         (@ + ins.immediate) % 256],
                        st, FALSE)
      [] ins.op = "Addr" ->
            LET destination_value == regs.work_registers[ins.destination]
                source_value == regs.work_registers[ins.source]
                sum == overflowing_add(destination_value, source_value)
            IN Interpreted(pp, stk,
                           WithFlag(regs, ins.destination, sum.value,
                                    as_u8(sum.overflow)),
                           st, FALSE)
      [] ins.op = "Sub" ->
            LET destination_value == regs.work_registers[ins.destination]
                source_value == regs.work_registers[ins.source]
                difference == overflowing_sub(destination_value, source_value)
            IN Interpreted(pp, stk,
                           WithFlag(regs, ins.destination, difference.value,
                                    as_u8(~difference.overflow)),
                           st, FALSE)
      [] ins.op = "Shr" ->
            LET destination_value == ShiftOperand(kind, regs, ins.register, ins.value)
                overflow == destination_value % 2
            IN Interpreted(pp, stk,
                           WithFlag(regs, ins.register, destination_value \div 2,
                                    overflow),
                           st, FALSE)
      [] ins.op = "Subn" ->
            LET destination_value == regs.work_registers[ins.destination]
                source_value == regs.work_registers[ins.source]
                difference == overflowing_sub(source_value, destination_value)
            IN Interpreted(pp, stk,
                           WithFlag(regs, ins.destination, difference.value,
                                    as_u8(~difference.overflow)),
                           st, FALSE)
      [] ins.op = "Shl" ->
            LET destination_value == ShiftOperand(kind, regs, ins.register, ins.value)
                overflow == destination_value \div 128
            IN Interpreted(pp, stk,
                           WithFlag(regs, ins.register, (destination_value * 2) % 256,
                                    overflow),
                           st, FALSE)
      [] ins.op = "Loadi" ->
            Interpreted(pp, stk, [regs EXCEPT !.index = ins.value], st, FALSE)
      [] ins.op = "Skpr" ->
            Interpreted(IF KeyValue(regs, ins.key, pressed) THEN pp + 2 ELSE pp,
                        stk, regs, st, FALSE)
      [] ins.op = "Skup" ->
            Interpreted(IF ~KeyValue(regs, ins.key, pressed) THEN pp + 2 ELSE pp,
                        stk, regs, st, FALSE)
      [] ins.op = "Keyd" ->
            Interpreted(pp, stk, regs, AwaitingKeyPress(ins.key), FALSE)
      [] ins.op = "Jumpi" ->
            Interpreted((ins.address
                            + regs.work_registers[JumpiRegister(kind, ins.address)])
                           % 65536,
                        stk, regs, st, FALSE)

\* Save: write(index + i, &work_registers[i..=i]).unwrap() for i in 0..=count
RECURSIVE SaveRegisters(_, _, _, _, _, _)
SaveRegisters(entries, mems, debug, regs, i, count) ==
    IF i > count THEN [memory |-> mems, registers |-> regs, panic |-> FALSE]
    ELSE CHOOSE result \in
            { IF written.access.result.kind # "Ok"
              THEN [memory |-> written.memory, registers |-> regs, panic |-> TRUE]
              ELSE SaveRegisters(entries, written.memory, debug, regs, i + 1, count) :
                 written \in { write(entries, mems, debug, regs.index + i,
                                     <<regs.work_registers[i]>>) } } : TRUE

\* Restore: read(index + i, &mut work_registers[i..=i]).unwrap() for i in 0..=count
RECURSIVE RestoreRegisters(_, _, _, _, _, _)
RestoreRegisters(entries, mems, debug, regs, i, count) ==
    IF i > count THEN [memory |-> mems, registers |-> regs, panic |-> FALSE]
    ELSE CHOOSE result \in
            { IF fetched.access.result.kind # "Ok"
              THEN [memory |-> fetched.memory,
                    registers |-> [regs EXCEPT !.work_registers[i] =
                                                   fetched.access.buffer[1]],
                    panic |-> TRUE]
              ELSE RestoreRegisters(entries, fetched.memory, debug,
                                    [regs EXCEPT !.work_registers[i] =
                                                    fetched.access.buffer[1]],
                                    i + 1, count) :
                 fetched \in { read(entries, mems, debug, regs.index + i,
                                    <<regs.work_registers[i]>>) } } : TRUE

IndexAfterOfAnyKind(kind, index, count) == (index + count + 1) % 65536

\* Only the original chip8 modifies the index register for this operation
IndexAfter(kind, index, count) ==
    IF kind = "Chip8" THEN (index + count + 1) % 65536 ELSE index

\* interpret_instruction with the timer it imports
interpret_with_timer(kind, pp, ins, stk, regs, st, pressed, timer) ==
    CASE ins.op = "Moved" ->
            Interpreted(pp, stk, [regs EXCEPT !.work_registers[ins.register] = timer],
                        st, FALSE) @@ [delay_timer |-> timer]
      [] ins.op = "Loadd" ->
            Interpreted(pp, stk, regs, st, FALSE)
               @@ [delay_timer |-> regs.work_registers[ins.register]]
      [] OTHER ->
            interpret_instruction(kind, pp, ins, stk, regs, st, pressed)
               @@ [delay_timer |-> timer]

\* interpret_instruction with the timer and the memory translation table
interpret_with_bus(kind, pp, ins, stk, regs, st, pressed, timer, entries, mems, debug) ==
    CASE ins.op = "Save" ->
            LET saved == SaveRegisters(entries, mems, debug, regs, 0, ins.count)
            IN Interpreted(pp, stk,
                           IF saved.panic THEN regs
                           ELSE [regs EXCEPT !.index =
                                    IndexAfter(kind, regs.index, ins.count)],
                           st, saved.panic)
                  @@ [delay_timer |-> timer, memory |-> saved.memory]
      [] ins.op = "Restore" ->
            LET restored == RestoreRegisters(entries, mems, debug, regs, 0, ins.count)
            IN Interpreted(pp, stk,
                           IF restored.panic THEN restored.registers
                           ELSE [restored.registers EXCEPT !.index =
                                    IndexAfter(kind, regs.index, ins.count)],
                           st, restored.panic)
                  @@ [delay_timer |-> timer, memory |-> restored.memory]
      [] OTHER ->
            interpret_with_timer(kind, pp, ins, stk, regs, st, pressed, timer)
               @@ [memory |-> mems]

(***************************************************************************)
(* ProcessorTask::tick, one action per step of its loop body.              *)
(***************************************************************************)
\* the executor calls tick(batch_size, ...)
ProcessorTaskTick ==
    /\ position = "idle"
    /\ \E batch_size \in 1..MaxBatch :
          /\ remaining' = batch_size
          /\ batch' = [size |-> batch_size, polls |-> 0, executed |-> 0]
    /\ position' = "tick"
    /\ UNCHANGED <<program_pointer, stack, registers, execution_state, controller,
                   executed, bus_traffic, last_wait, instruction, decoded,
                   processor_config, delay_timer, loadd,
                   execVars, mirrorVars, busVars, buildVars>>

\* component.tick(memory_translation_table)
ComponentTick ==
    /\ position = "tick"
    /\ \E found \in find_map(controller) :
          LET polled == Chip8Tick(execution_state, registers, controller, found)
          IN /\ execution_state' = polled.execution_state
             /\ registers' = polled.registers
             /\ last_wait' =
                    IF /\ execution_state.kind = "AwaitingKeyPress"
                       /\ polled.execution_state.kind # "AwaitingKeyPress"
                    THEN [last_wait EXCEPT !.key = found, !.seen = TRUE]
                    ELSE last_wait
    /\ position' = "execute"
    /\ batch' = [batch EXCEPT !.polls = @ + 1]
    /\ UNCHANGED <<program_pointer, stack, controller, remaining, executed,
                   bus_traffic, instruction, decoded,
                   processor_config, delay_timer, loadd,
                   execVars, mirrorVars, busVars, buildVars>>

\* the next iteration of for _ in 0..batch_size, or the return of tick
NextIteration ==
    /\ remaining' = remaining - 1
    /\ position' = IF remaining = 1 THEN "idle" ELSE "tick"

\* if !component.should_execution_occur() { continue; }
ShouldNotExecute ==
    /\ position = "execute"
    /\ ~should_execution_occur(execution_state)
    /\ NextIteration
    /\ UNCHANGED <<program_pointer, stack, registers, execution_state, controller,
                   executed, bus_traffic, last_wait, instruction, decoded,
                   processor_config, delay_timer, loadd, batch,
                   execVars, mirrorVars, busVars, buildVars>>

\* fetch and decode (decompile), advance the program pointer, interpret;
\* the unwrap of a failed bus read and unimplemented!() end the process
FetchDecodeExecute ==
    /\ position = "execute"
    /\ should_execution_occur(execution_state)
    /\ executed < MaxInstructions
    /\ executed' = executed + 1
    /\ batch' = [batch EXCEPT !.executed = @ + 1]
    /\ bus_traffic' = bus_traffic + 1
    /\ \E fetched \in {read(table, memory, debug_build, program_pointer, <<0, 0>>).access} :
          IF fetched.result.kind # "Ok"
          THEN /\ position' = "panicked"
               /\ UNCHANGED <<program_pointer, stack, registers, execution_state,
                              remaining, last_wait, instruction, decoded,
                              delay_timer, loadd>>
          ELSE \E ins \in {decode_instruction(fetched.buffer)} :
               /\ instruction' = fetched.buffer
               /\ decoded' = ins
               /\ IF ins = Unimplemented
                  THEN /\ position' = "panicked"
                       /\ UNCHANGED <<program_pointer, stack, registers,
                                      execution_state, remaining, last_wait,
                                      delay_timer, loadd>>
                  ELSE \E out \in {interpret_with_timer(processor_config.kind,
                                                        program_pointer + 2, ins, stack,
                                                        registers, execution_state,
                                                        controller, delay_timer)} :
                          /\ program_pointer' = out.program_pointer
                          /\ delay_timer' = out.delay_timer
                          /\ loadd' = Loaded(ins, loadd, registers)
                          /\ stack' = out.stack
                          /\ registers' = out.registers
                          /\ execution_state' = out.execution_state
                          /\ last_wait' =
                                IF ins.op = "Keyd"
                                THEN [register |-> ins.key,
                                      resume |-> program_pointer + 2,
                                      before |-> registers.work_registers[ins.key],
                                      key |-> 0, seen |-> FALSE]
                                ELSE last_wait
                          /\ IF out.panic
                             THEN position' = "panicked" /\ UNCHANGED remaining
                             ELSE NextIteration
    /\ UNCHANGED <<controller, processor_config,
                   execVars, mirrorVars, busVars, buildVars>>

\* EmulatedGamepad::set_input_state, called by the runtime between runs
set_input_state(key, pressed) ==
    /\ position = "idle"
    /\ controller' = IF pressed THEN controller \cup {key} ELSE controller \ {key}
    /\ UNCHANGED <<program_pointer, stack, registers, execution_state, remaining,
                   position, executed, bus_traffic, last_wait, instruction, decoded,
                   processor_config, delay_timer, loadd, batch,
                   execVars, mirrorVars, busVars, buildVars>>

SetInput == \E key \in 0..MaxKey, pressed \in BOOLEAN : set_input_state(key, pressed)

\* the machine after finalize_machine, before the first run
InitChip8 ==
    /\ table = Chip8Table
    /\ \E rom \in Roms : memory = Chip8Contents(rom)
    /\ debug_build \in BOOLEAN
    /\ access = NoAccess
    /\ accesses = 0
    /\ held = {}
    /\ machine = "finalized"
    /\ program_pointer = initial_program_pointer
    /\ stack = <<>>
    /\ registers = [work_registers |-> [r \in 0..15 |-> 0], index |-> 0]
    /\ execution_state = Normal
    /\ processor_config = [kind |-> "Chip8"]
    /\ delay_timer = 0
    /\ loadd = NoLoadd
    /\ batch = NoBatch
    /\ controller = {}
    /\ remaining = 0
    /\ position = "idle"
    /\ executed = 0
    /\ bus_traffic = 0
    /\ last_wait = NoWait
    /\ instruction = <<>>
    /\ decoded = NoInstruction
    /\ ExecUnbuilt(<<>>)
    /\ MirrorIdle

ProcessorStep ==
    ProcessorTaskTick \/ ComponentTick \/ ShouldNotExecute \/ FetchDecodeExecute

NextChip8 == ProcessorStep \/ SetInput

SpecChip8 == InitChip8 /\ [][NextChip8]_vars

\* a step of FetchDecodeExecute that decoded and interpreted the return
ReturnExecuted ==
    /\ executed' = executed + 1
    /\ decoded' = [op |-> "Sys", syscall |-> 238]

\* C19: executing the return instruction (Sys 0x0EE) with an empty call
\* stack does not end the process: the program pointer becomes 0x200, the
\* stack stays empty, the registers and the execution state are unchanged
C19_ReturnOnEmptyStack ==
    [][(ReturnExecuted /\ stack = <<>>) =>
          /\ position' # "panicked"
          /\ program_pointer' = 512
          /\ stack' = <<>>
          /\ registers' = registers
          /\ execution_state' = execution_state]_vars

\* the ROM "load V1, return" has just returned with nothing on the stack
C19_Witness ==
    /\ decoded = [op |-> "Sys", syscall |-> 238]
    /\ instruction = Word(238)
    /\ stack = <<>>
    /\ program_pointer = 512
    /\ registers.work_registers[1] = 5
    /\ executed = 2
    /\ position # "panicked"

\* Keyd Vr has just been decoded and interpreted
KeydExecuted(r) ==
    /\ executed' = executed + 1
    /\ decoded' = [op |-> "Keyd", key |-> r]

\* C14: the execution state changes only from Normal to AwaitingKeyPress{r}
\* by executing Keyd with register r, from AwaitingKeyPress{r} to
\* AwaitingKeyRelease{r, k} at a tick that sees key k pressed, and from
\* AwaitingKeyRelease{r, k} to Normal at a tick that sees k not pressed
C14_ExecutionStateTransitions ==
    [][execution_state' # execution_state =>
          \/ /\ execution_state = Normal
             /\ \E r \in 0..15 :
                   execution_state' = AwaitingKeyPress(r) /\ KeydExecuted(r)
          \/ /\ execution_state.kind = "AwaitingKeyPress"
             /\ position = "tick"
             /\ \E k \in controller :
                   execution_state' = AwaitingKeyRelease(execution_state.register, k)
          \/ /\ execution_state.kind = "AwaitingKeyRelease"
             /\ position = "tick"
             /\ execution_state.key \notin controller
             /\ execution_state' = Normal]_vars

\* Keyd V1 was executed and a tick then saw key 1 pressed
C14_Witness ==
    /\ execution_state = AwaitingKeyRelease(1, 1)
    /\ decoded = [op |-> "Keyd", key |-> 1]
    /\ 1 \in controller
    /\ position = "execute"

\* the processor was waiting before the step and is still waiting after it
StillWaiting ==
    /\ execution_state.kind # "Normal"
    /\ execution_state'.kind # "Normal"

\* C15: while the processor remains in AwaitingKeyPress or
\* AwaitingKeyRelease, no step of a ProcessorTask tick reads or writes the
\* bus or changes the program pointer, the work registers, the index
\* register or the call stack, whatever the batch size
C15_WaitingLeavesBusAndRegisters ==
    [][StillWaiting =>
          UNCHANGED <<bus_traffic, executed, program_pointer, registers, stack,
                      memory, access, accesses>>]_vars

\* the last iteration of a batch polled and the processor is still waiting
C15_Witness ==
    /\ execution_state.kind = "AwaitingKeyPress"
    /\ position = "execute"
    /\ remaining = 1
    /\ executed >= 1
    /\ bus_traffic = executed

(***************************************************************************)
(* The processor keeps being ticked and the player answers a wait: input   *)
(* changes freely while the processor runs, a key goes down while it       *)
(* waits for a press with nothing held, and the key it latched goes up     *)
(* while it waits for the release.                                         *)
(***************************************************************************)
IdleInput == execution_state = Normal /\ SetInput

PressKey ==
    /\ execution_state.kind = "AwaitingKeyPress"
    /\ controller = {}
    /\ \E key \in 0..MaxKey : set_input_state(key, TRUE)

ReleaseKey ==
    /\ execution_state.kind = "AwaitingKeyRelease"
    /\ execution_state.key \in controller
    /\ set_input_state(execution_state.key, FALSE)

NextChip8Live == ProcessorStep \/ IdleInput \/ PressKey \/ ReleaseKey

\* the steps of ProcessorTask::tick that a waiting processor takes
PollingStep == ProcessorTaskTick \/ ComponentTick \/ ShouldNotExecute

\* the executor keeps calling tick and the loop of tick keeps polling (weak
\* fairness: one of these steps is always possible while waiting); the
\* press and the release are possible only between two ticks, so they need
\* strong fairness
SpecChip8Live ==
    /\ InitChip8
    /\ [][NextChip8Live]_vars
    /\ WF_vars(PollingStep)
    /\ SF_vars(PressKey)
    /\ SF_vars(ReleaseKey)

\* the tick that saw the release: Normal again, Vx holds the key that was
\* seen pressed and is now up, and the next fetch is at the instruction
\* after Keyd
Resumed ==
    /\ execution_state = Normal
    /\ position = "execute"
    /\ last_wait.seen
    /\ last_wait.key \notin controller
    /\ decoded = [op |-> "Keyd", key |-> last_wait.register]
    /\ registers.work_registers[last_wait.register] = last_wait.key
    /\ program_pointer = last_wait.resume

\* C16: after Keyd Vx, if the processor keeps being ticked and a key k is
\* seen pressed and later seen released, the processor eventually returns
\* to Normal with Vx = k and resumes at the instruction after Keyd; Vx is
\* not written while the processor waits
C16_KeyWaitResumes ==
    /\ (execution_state.kind = "AwaitingKeyPress") ~> Resumed
    /\ [](execution_state.kind # "Normal" =>
             registers.work_registers[last_wait.register] = last_wait.before)

\* Keyd V1 was answered with key 1: V1 went from 0 to 1 at the release
C16_Witness ==
    /\ Resumed
    /\ last_wait.register = 1
    /\ last_wait.before = 0
    /\ last_wait.key = 1
    /\ controller = {}

(***************************************************************************)
(* Claims about the break conditions of run (SpecExec).                    *)
(***************************************************************************)
\* C17: a loop iteration of run that starts with no wall-clock budget left,
\* or with current_tick * tick_real_time greater than the wall-clock time
\* since self.timestamp, ticks no task; a run with a zero period ticks no
\* task and leaves current_tick unchanged
C17_NoTickWithoutBudgetOrAhead ==
    [][(running /\ (period - (clock - start_time) <= 0
                    \/ current_tick * numer(tick_real_time) * ClockHz
                          > (clock - timestamp) * denom(tick_real_time)))
          => ticked' = ticked /\ current_tick' = current_tick]_vars

\* run has returned with budget left because the simulation was ahead of
\* the wall clock, after it had ticked a task
C17_Witness ==
    /\ built /\ ~running
    /\ clock - start_time < period
    /\ AheadOfTime
    /\ \E i \in DOMAIN ticked : ticked[i] > 0

\* the byte of work_memory or system_memory at an address
ByteAt(address) ==
    IF address < initial_program_pointer THEN memory[1][address + 1]
    ELSE memory[2][address - initial_program_pointer + 1]

\* C26: in a batch every iteration polls the component once; an iteration
\* fetches one instruction at the program pointer, advances the pointer by
\* its size and interprets it if and only if should_execution_occur holds
\* after the poll; a batch of size b executes at most b instructions, and
\* none while the processor waits for a key
C26_OnePollThenAtMostOneInstruction ==
    /\ [](/\ batch.executed <= batch.polls
          /\ batch.polls <= batch.size
          /\ position \in {"idle", "tick"} => batch.polls = batch.size - remaining
          /\ position = "execute" => batch.polls = batch.size - remaining + 1)
    /\ [][/\ executed' = executed + 1 =>
                /\ position = "execute"
                /\ execution_state = Normal
                /\ batch'.executed = batch.executed + 1
                /\ instruction' = <<ByteAt(program_pointer), ByteAt(program_pointer + 1)>>
                /\ position' # "panicked" =>
                      /\ remaining' = remaining - 1
                      /\ decoded'.op \in {"Load", "Add", "Loadi", "Keyd"} =>
                            program_pointer' = program_pointer + 2
                      /\ decoded'.op = "Jump" => program_pointer' = decoded'.address
          /\ (remaining' < remaining /\ executed' = executed) =>
                position = "execute" /\ execution_state # Normal]_vars

\* a batch of two: Keyd was executed in the first iteration, the second
\* polled and executed nothing
C26_Witness ==
    /\ batch = [size |-> 2, polls |-> 2, executed |-> 1]
    /\ decoded.op = "Keyd"
    /\ execution_state.kind = "AwaitingKeyPress"
    /\ position = "idle"

(***************************************************************************)
(* The register arithmetic of interpret_instruction: one instruction of    *)
(* group 0x8 decoded and interpreted on chosen register contents, for      *)
(* every kind of processor.                                                *)
(***************************************************************************)
MaxOperand == 2

\* Chip8Kind, as far as the source tells its variants apart
Chip8Kinds == {"Chip8", "Chip48", "SuperChip8"}

\* register values near 0, near the sign bit and near 0xff
Operands == (0..MaxOperand) \cup {127, 128} \cup ((255 - MaxOperand)..255)

\* the registers an instruction names: two ordinary ones and the flag VF
OperandRegisters == {0, 1, 15}

\* 8XY4 Addr, 8XY5 Sub, 8XY6 Shr, 8XY7 Subn, 8XYE Shl
ArithmeticWords ==
    {32768 + 256 * x + 16 * y + n :
        x \in OperandRegisters, y \in OperandRegisters, n \in {4, 5, 6, 7, 14}}

\* ProcessorComponent::interpret on a decoded instruction
Interpret ==
    /\ executed = 0
    /\ \E word \in ArithmeticWords :
          \E ins \in {decode_instruction(Word(word))} :
          \E out \in {interpret_instruction(processor_config.kind, program_pointer, ins,
                                            stack, registers, execution_state,
                                            controller)} :
             /\ instruction' = Word(word)
             /\ decoded' = ins
             /\ program_pointer' = out.program_pointer
             /\ stack' = out.stack
             /\ registers' = out.registers
             /\ execution_state' = out.execution_state
    /\ executed' = 1
    /\ UNCHANGED <<processor_config, delay_timer, loadd, batch, controller, remaining, position,
                   bus_traffic,
                   last_wait, execVars, mirrorVars, busVars, buildVars>>

InitArithmetic ==
    /\ \E a \in Operands, b \in Operands, f \in Operands :
          registers = [work_registers |->
                          [r \in 0..15 |-> CASE r = 0 -> a [] r = 1 -> b
                                             [] r = 15 -> f [] OTHER -> 0],
                       index |-> 0]
    /\ processor_config \in [kind : Chip8Kinds]
    /\ delay_timer = 0
    /\ loadd = NoLoadd
    /\ batch = NoBatch
    /\ program_pointer = initial_program_pointer
    /\ stack = <<>>
    /\ execution_state = Normal
    /\ controller = {}
    /\ remaining = 0
    /\ position = "idle"
    /\ executed = 0
    /\ bus_traffic = 0
    /\ last_wait = NoWait
    /\ instruction = <<>>
    /\ decoded = NoInstruction
    /\ machine = "finalized"
    /\ ExecUnbuilt(<<>>)
    /\ MirrorIdle
    /\ BusIdle

SpecArithmetic == InitArithmetic /\ [][Interpret]_vars

\* the step that interpreted an instruction op
Interpreting(op) == executed' = executed + 1 /\ decoded'.op = op

\* its operands: Vx is the first register of the instruction, Vy the second
X == IF decoded'.op \in {"Shr", "Shl"} THEN decoded'.register ELSE decoded'.destination
Y == IF decoded'.op \in {"Shr", "Shl"} THEN decoded'.value ELSE decoded'.source

V(r) == registers.work_registers[r]

\* C21: Addr Vx, Vy leaves Vx = (Vx + Vy) mod 256 when x is not F, and
\* VF = 1 if the sum exceeds 255 and VF = 0 otherwise
C21_AddrSetsCarry ==
    [][Interpreting("Addr") =>
          /\ X # 15 => registers'.work_registers[X] = (V(X) + V(Y)) % 256
          /\ registers'.work_registers[15] = IF V(X) + V(Y) > 255 THEN 1 ELSE 0]_vars

\* Addr V0, V1 on 0xff and 0x01 gave 0x00 with VF = 1
C21_Witness ==
    /\ decoded = [op |-> "Addr", destination |-> 0, source |-> 1]
    /\ executed = 1
    /\ V(0) = 0
    /\ V(1) = 1
    /\ V(15) = 1

\* C29: Sub Vx, Vy leaves Vx = (Vx - Vy) mod 256 and Subn Vx, Vy leaves
\* Vx = (Vy - Vx) mod 256; VF is 1 exactly when the minuend is at least the
\* subtrahend, and VF holds that flag also when x is F
C29_SubtractSetsNotBorrow ==
    [][/\ Interpreting("Sub") =>
             /\ X # 15 => registers'.work_registers[X] = (V(X) - V(Y) + 256) % 256
             /\ registers'.work_registers[15] = IF V(X) >= V(Y) THEN 1 ELSE 0
       /\ Interpreting("Subn") =>
             /\ X # 15 => registers'.work_registers[X] = (V(Y) - V(X) + 256) % 256
             /\ registers'.work_registers[15] = IF V(Y) >= V(X) THEN 1 ELSE 0]_vars

\* Sub VF, V0 with V0 = 0xff and VF below it: VF is the flag 0, not the
\* difference
C29_Witness ==
    /\ decoded = [op |-> "Sub", destination |-> 15, source |-> 0]
    /\ executed = 1
    /\ V(0) = 255
    /\ V(1) = 254
    /\ V(15) = 0

\* the operand Shr and Shl are to shift, by the kind of processor
Operand(x, y) == IF processor_config.kind = "Chip8" THEN V(y) ELSE V(x)

\* C30 as stated: Vx becomes the operand shifted by one bit and VF the bit
\* shifted out, for every x
C30_ShiftsAsStated ==
    [][/\ Interpreting("Shr") =>
             /\ registers'.work_registers[X] = Operand(X, Y) \div 2
             /\ registers'.work_registers[15] = Operand(X, Y) % 2
       /\ Interpreting("Shl") =>
             /\ registers'.work_registers[X] = (Operand(X, Y) * 2) % 256
             /\ registers'.work_registers[15] = Operand(X, Y) \div 128]_vars

\* C30, amended: Shr and Shl take their operand from Vy only when the kind
\* is Chip8 and from Vx otherwise; VF becomes the bit shifted out, and Vx
\* becomes the operand shifted by one bit when x is not F
C30_ShiftsFlagLast ==
    [][/\ Interpreting("Shr") =>
             /\ X # 15 => registers'.work_registers[X] = Operand(X, Y) \div 2
             /\ registers'.work_registers[15] = Operand(X, Y) % 2
       /\ Interpreting("Shl") =>
             /\ X # 15 => registers'.work_registers[X] = (Operand(X, Y) * 2) % 256
             /\ registers'.work_registers[15] = Operand(X, Y) \div 128]_vars

\* Shl V0, V1 on a Chip8 with V1 = 0x80: V0 is 0x80 shifted, VF its top bit
C30_Witness ==
    /\ processor_config.kind = "Chip8"
    /\ decoded = [op |-> "Shl", register |-> 0, value |-> 1]
    /\ executed = 1
    /\ V(1) = 128
    /\ V(0) = 0
    /\ V(15) = 1

(***************************************************************************)
(* Claims about the batches of run (SpecExec).                             *)
(***************************************************************************)
\* a step of the loop of run that got as far as increment_tick
LoopStep == running /\ (current_tick' # current_tick \/ wraps' # wraps)

\* the tasks that are due at current_tick
Due == {i \in DOMAIN tasks : run_indication(i) = 0}

\* how many ticks from current_tick task i is next due
NextDue(i) == tasks[i] - run_indication(i)

\* C22: when exactly one of several tasks is due, the batch advances
\* current_tick by no more than the distance to the earliest next due tick
\* of the other tasks, so the due tick of no other task is jumped over
C22_BatchStopsAtNextDue ==
    [][(LoopStep /\ Cardinality(Due) = 1 /\ Len(tasks) > 1) =>
          \A i \in DOMAIN tasks \ Due : last_increment' <= NextDue(i)]_vars

\* C23: when two or more tasks are due, each due task is ticked exactly
\* once, no other task is ticked, and current_tick advances by exactly 1
C23_TieTicksEachDueOnce ==
    [][(LoopStep /\ Cardinality(Due) >= 2) =>
          /\ \A i \in DOMAIN tasks :
                ticked'[i] = IF i \in Due THEN ticked[i] + 1 ELSE ticked[i]
          /\ last_increment' = 1
          /\ current_tick' = (current_tick + 1) % rollover_tick]_vars

\* three tasks, due every 6, 3 and 2 ticks, were all due at tick 0 and each
\* was ticked once
C23_Witness ==
    /\ built
    /\ tasks = <<6, 3, 2>>
    /\ current_tick = 1
    /\ wraps = 0
    /\ ticked = <<1, 1, 1>>
    /\ last_increment = 1

\* C24: 0 <= current_tick < rollover_tick, and no increment is larger than
\* rollover_tick - current_tick: a wrap leaves current_tick at exactly 0
C24_TickStaysBelowRollover ==
    /\ [](built => (0 <= current_tick /\ current_tick < rollover_tick))
    /\ [][LoopStep =>
             /\ last_increment' <= rollover_tick - current_tick
             /\ wraps' # wraps => current_tick' = 0]_vars

\* a batch of several ticks ended exactly at the rollover boundary
C24_Witness ==
    /\ built
    /\ wraps = 1
    /\ current_tick = 0
    /\ last_increment > 1
    /\ last_increment < rollover_tick

\* C25: whenever current_tick reaches the rollover boundary and wraps to 0,
\* also when one batch started at tick 0 covers a whole rollover period,
\* self.timestamp is reset to the current time
C25_RolloverResetsTimestamp ==
    [][(LoopStep /\ wraps' # wraps) => timestamp' = clock]_vars

(***************************************************************************)
(* Claims about the cycle cost of a bus access (SpecBus).                  *)
(***************************************************************************)
RECURSIVE CyclesTaken(_, _)
\* the sum of the costs the first n device calls of the access returned
CyclesTaken(calls, n) ==
    IF n = 0 THEN 0 ELSE CyclesTaken(calls, n - 1) + calls[n].cycles_taken

\* the calls of the access whose device answered with a Redirect record
RedirectingCalls ==
    {c \in 1..Len(access.calls) : table[access.calls[c].device].kind = "MirrorMemory"}

\* C28: a read or write that succeeds returns the sum of the costs returned
\* by every device call of the access, those of redirecting devices
\* included; a Denied or OutOfBounds result carries no cost
C28_CyclesAreSummed ==
    (AccessDone /\ access.op \in {"read", "write"})
    => /\ access.result.kind = "Ok"
          => access.result.cycles = CyclesTaken(access.calls, Len(access.calls))
       /\ access.result.kind \in {"Denied", "OutOfBounds"}
          => "cycles" \notin DOMAIN access.result

\* a read through a mirror of a mirror succeeded: two redirecting calls
\* and the call of the memory behind them were paid for
C28_Witness ==
    /\ AccessDone
    /\ access.op = "read"
    /\ access.result.kind = "Ok"
    /\ Len(access.calls) = 3
    /\ Cardinality(RedirectingCalls) = 2
    /\ access.result.cycles = 9

(***************************************************************************)
(* Claims about failed and repeated bus accesses (SpecBus).                *)
(***************************************************************************)
\* C33: a bus write that returns Denied or OutOfBounds leaves the memory of
\* every registered device as it was before the write, also when the range
\* written spans several devices and only one of them denies
C33_FailedWriteChangesNothing ==
    (AccessDone /\ access.op = "write"
        /\ access.result.kind \in {"Denied", "OutOfBounds"})
    => memory = access.before

(***************************************************************************)
(* A bus with one readable and writable PlainMemory, written and read by   *)
(* whole calls of MemoryTranslationTable::write and read.                  *)
(***************************************************************************)
MaxPlainAccesses == 2
MaxPlainAddr == 6

\* the first byte of the values a caller writes
WrittenBases == {150}

PlainTables ==
    { <<PlainMemory(range, TRUE, TRUE, max_word_size)>> :
         range \in {<<0, 8>>, <<2, 6>>}, max_word_size \in WordSizes }

WholeCall(op, offset, buffer) ==
    /\ access.pc \in {"idle", "done"}
    /\ accesses < MaxPlainAccesses
    /\ \E done \in { Complete(table, memory, debug_build,
                              Begin(table, op, offset, buffer)) } :
          /\ access' = done.access @@ [before |-> memory]
          /\ memory' = done.memory
    /\ accesses' = accesses + 1
    /\ UNCHANGED <<table, debug_build, held, execVars, mirrorVars, buildVars, chip8Vars>>

PlainBusWrite ==
    \E offset \in 0..MaxPlainAddr, len \in WordSizes, base \in WrittenBases :
       WholeCall("write", offset, [i \in 1..len |-> base + i])

PlainBusRead ==
    \E offset \in 0..MaxPlainAddr, len \in WordSizes :
       WholeCall("read", offset, CallerBuffer(len))

InitPlain ==
    /\ table \in PlainTables
    /\ memory = InitialContents(table)
    /\ debug_build \in BOOLEAN
    /\ access = NoAccess
    /\ accesses = 0
    /\ held = {}
    /\ machine = "finalized"
    /\ ExecUnbuilt(<<>>)
    /\ MirrorIdle
    /\ Chip8Idle

SpecPlain == InitPlain /\ [][PlainBusWrite \/ PlainBusRead]_vars

\* the call of the step is a call of op
Calls(op) == accesses' = accesses + 1 /\ access'.op = op

\* the range of the call of the step lies in the memory's range and is no
\* wider than its max_word_size
InRange == PlainInBounds(table[1], access'.offset, Len(access'.caller_buffer))
InWord == Len(access'.caller_buffer) <= table[1].max_word_size

\* the byte the memory holds for bus address a
PlainByte(mems, a) == mems[1][a - table[1].assigned_range[1] + 1]

PlainAddresses == table[1].assigned_range[1]..(table[1].assigned_range[2] - 1)

WrittenAddresses == access'.offset..(access'.offset + Len(access'.caller_buffer) - 1)

\* C37: on a readable and writable PlainMemory, for a width up to
\* max_word_size and a range inside the memory, write(o, b) followed by
\* read(o, w) returns b and the write changes no byte outside [o, o + w);
\* a wider access is Denied and changes neither the memory nor the buffer
C37_PlainWriteThenRead ==
    [][/\ (Calls("read") /\ InRange /\ InWord /\ access.pc = "done"
              /\ access.op = "write" /\ access.offset = access'.offset
              /\ Len(access.caller_buffer) = Len(access'.caller_buffer))
          => /\ access.result.kind = "Ok"
             /\ access'.result.kind = "Ok"
             /\ access'.buffer = access.caller_buffer
       /\ (Calls("write") /\ InRange /\ InWord)
          => /\ access'.result.kind = "Ok"
             /\ \A a \in PlainAddresses :
                   PlainByte(memory', a) =
                      IF a \in WrittenAddresses
                      THEN access'.caller_buffer[a - access'.offset + 1]
                      ELSE PlainByte(memory, a)
       /\ ((Calls("read") \/ Calls("write")) /\ InRange /\ ~InWord)
          => /\ access'.result.kind = "Denied"
             /\ memory' = memory
             /\ access'.buffer = access'.caller_buffer]_vars

\* two bytes written at 4 were read back from a memory that had other
\* bytes there before and still has its first bytes
C37_Witness ==
    /\ access.pc = "done"
    /\ access.op = "read"
    /\ access.offset = 4
    /\ access.result.kind = "Ok"
    /\ access.buffer = <<151, 152>>
    /\ access.caller_buffer = <<201, 202>>
    /\ table[1].assigned_range = <<2, 6>>
    /\ memory[1] = <<18, 19, 151, 152>>

(***************************************************************************)
(* PlainMemory::from_config and reset (Value and Array initial contents).  *)
(***************************************************************************)
Value(value) == [kind |-> "Value", value |-> value, data |-> <<>>, offset |-> 0]
Array(data, offset) == [kind |-> "Array", value |-> 0, data |-> data, offset |-> offset]

\* slicing buffer[adjusted_offset..adjusted_offset + data.len()] out of
\* bounds panics, and so does offset - assigned_range.start below 0
InitializePanics(config) ==
    /\ config.initial_contents.kind = "Array"
    /\ \/ config.initial_contents.offset < config.assigned_range[1]
       \/ config.initial_contents.offset + Len(config.initial_contents.data)
             > config.assigned_range[2]

initialize_internal_buffer(config, buffer) ==
    IF config.initial_contents.kind = "Value"
    THEN [k \in 1..Len(buffer) |-> config.initial_contents.value]
    ELSE Patch(buffer, config.initial_contents.offset - config.assigned_range[1],
               config.initial_contents.data)

\* let mut buffer = vec![0; buffer_size]; initialize_internal_buffer(...)
from_config(config) ==
    initialize_internal_buffer(config, [k \in 1..RangeLen(config.assigned_range) |-> 0])

ResetRange == <<2, 6>>

InitialContentsOfReset ==
    {Value(0), Value(7)} \cup {Array(<<1, 2>>, offset) : offset \in 0..MaxPlainAddr}

ResetTables ==
    { <<config>> :
         config \in { c \in { PlainMemory(ResetRange, TRUE, TRUE, 8)
                                 @@ [initial_contents |-> contents] :
                              contents \in InitialContentsOfReset } :
                      ~InitializePanics(c) } }

\* Component::reset of the memory
PlainReset ==
    /\ access.pc \in {"idle", "done"}
    /\ memory' = [memory EXCEPT ![1] = initialize_internal_buffer(table[1], @)]
    /\ access' = [pc |-> "idle", op |-> "reset"]
    /\ UNCHANGED <<table, debug_build, held, accesses, execVars, mirrorVars, buildVars,
                   chip8Vars>>

InitReset ==
    /\ table \in ResetTables
    /\ memory = <<from_config(table[1])>>
    /\ debug_build \in BOOLEAN
    /\ access = NoAccess
    /\ accesses = 0
    /\ held = {}
    /\ machine = "finalized"
    /\ ExecUnbuilt(<<>>)
    /\ MirrorIdle
    /\ Chip8Idle

SpecReset == InitReset /\ [][PlainBusWrite \/ PlainReset]_vars

\* C39: reset restores the buffer to exactly the contents it had right
\* after construction, for Value and Array initial contents, whatever was
\* written in between, bytes outside the initial array included
C39_ResetRestoresConstruction ==
    (access.pc = "idle" /\ "op" \in DOMAIN access)
    => memory[1] = from_config(table[1])

(***************************************************************************)
(* Reads and previews of the same bus, as whole calls.  A call that has    *)
(* re-resolved MaxResolves times is left in its loop: it has not returned. *)
(***************************************************************************)
RECURSIVE CompleteWithin(_, _, _, _)
CompleteWithin(entries, mems, debug, acc) ==
    IF acc.pc = "done" \/ acc.resolves >= MaxResolves
    THEN [access |-> acc, memory |-> mems]
    ELSE CHOOSE done \in { CompleteWithin(entries, after.memory, debug, after.access) :
                              after \in {Iterate(entries, mems, debug, acc)} } : TRUE

CallWithin(op, offset, len) ==
    /\ BusReady
    /\ \E done \in { CompleteWithin(table, memory, debug_build,
                                    Begin(table, op, offset, CallerBuffer(len))) } :
          /\ access' = done.access @@ [before |-> memory]
          /\ memory' = done.memory
    /\ accesses' = accesses + 1
    /\ UNCHANGED <<table, debug_build, held, execVars, mirrorVars, buildVars, chip8Vars>>

ReadWithin == \E offset \in 0..MaxAddr, len \in WordSizes \cap (1..MaxWidth) :
                 CallWithin("read", offset, len)

PreviewWithin == \E offset \in 0..MaxAddr, len \in WordSizes \cap (1..MaxWidth) :
                    CallWithin("preview", offset, len)

\* the buses made of PlainMemory and MirrorMemory devices
InitPreview ==
    /\ InitBus
    /\ \A d \in DOMAIN table : table[d].kind \in {"PlainMemory", "MirrorMemory"}

SpecPreview == InitPreview /\ [][ReadWithin \/ PreviewWithin]_vars

Returned(acc, kind) == acc.pc = "done" /\ acc.result.kind = kind

\* the step calls op with the address and width of the call before it,
\* which was a call of other
Repeats(other, op) ==
    /\ Calls(op)
    /\ access.pc = "done"
    /\ access.op = other
    /\ access.offset = access'.offset
    /\ Len(access.caller_buffer) = Len(access'.caller_buffer)

\* C38: for any address and width in {1, 2, 4, 8} on a bus of PlainMemory
\* and MirrorMemory devices, preview succeeds exactly when read of the
\* same address and width succeeds, and then yields the same bytes, and
\* preview returns Denied exactly when read returns Denied
C38_PreviewAgreesWithRead ==
    [][(Repeats("read", "preview") \/ Repeats("preview", "read")) =>
          /\ Returned(access', "Ok") <=> Returned(access, "Ok")
          /\ Returned(access', "Ok") => access'.buffer = access.buffer
          /\ Returned(access', "Denied") <=> Returned(access, "Denied")]_vars

(***************************************************************************)
(* The device locks of a bus access: memory_component.lock() is taken in   *)
(* the body of the while loop, and the guard is dropped where the body     *)
(* ends or returns.                                                        *)
(***************************************************************************)
MaxLockedAccesses == 1

UnlockedNever(locks, device) == locks

\* the MutexGuard goes out of scope
Unlocked(locks, device) == locks \ {device}

\* the entry the loop pops next
Popped == access.to_inspect[Len(access.to_inspect)]

LockedEnter ==
    \E op \in {"read", "write", "preview"}, offset \in 0..MaxAddr,
       len \in WordSizes \cap (1..MaxWidth) :
       /\ access.pc \in {"idle", "done"}
       /\ accesses < MaxLockedAccesses
       /\ access' = Begin(table, op, offset, CallerBuffer(len)) @@ [before |-> memory]
       /\ accesses' = accesses + 1
       /\ UNCHANGED <<table, memory, debug_build, held, execVars, mirrorVars,
                      buildVars, chip8Vars>>

\* memory_component.lock().unwrap(): waits while the Mutex is locked
Lock ==
    /\ access.pc = "loop"
    /\ access.resolves < MaxResolves
    /\ Popped.device \notin held
    /\ held' = held \cup {Popped.device}
    /\ access' = [access EXCEPT !.pc = "locked"]
    /\ UNCHANGED <<table, memory, debug_build, accesses, execVars, mirrorVars,
                   buildVars, chip8Vars>>

\* the device call and its records, to the end of the loop body
Invoke ==
    /\ access.pc = "locked"
    /\ \E after \in { Iterate(table, memory, debug_build,
                              [access EXCEPT !.pc = "loop"]) } :
          /\ access' = after.access
          /\ memory' = after.memory
    /\ held' = Unlocked(held, Popped.device)
    /\ UNCHANGED <<table, debug_build, accesses, execVars, mirrorVars, buildVars,
                   chip8Vars>>

SpecLocks == InitBus /\ [][LockedEnter \/ Lock \/ Invoke]_vars

\* C34: during a bus read, write or preview at most one device lock is
\* held at any moment, and the lock of the device invoked is released
\* before the next work-stack entry is processed: an access redirected
\* back into the same device never waits for a lock the bus holds
C34_OneLockAtATime ==
    /\ Cardinality(held) <= 1
    /\ access.pc = "locked" => held = {Popped.device}
    /\ access.pc # "locked" => held = {}
    /\ access.pc = "loop" => Popped.device \notin held

\* a mirror that redirects into its own range is locked for the second
\* time in one access
C34_Witness ==
    /\ access.pc = "locked"
    /\ held = {Popped.device}
    /\ \E c \in 1..Len(access.calls) : access.calls[c].device = Popped.device

(***************************************************************************)
(* Claims about the order of the task ticks (SpecExec).                    *)
(***************************************************************************)
\* C35: several tasks due on the same global tick are ticked in the order
\* in which they were registered with the executor, so the sequence of
\* task ticks is a function of the task list and the tick alone
C35_TiesInRegistrationOrder ==
    [][(LoopStep /\ Cardinality(Due) >= 2) =>
          /\ {issued'[k] : k \in DOMAIN issued'} = Due
          /\ Len(issued') = Cardinality(Due)
          /\ \A k, l \in DOMAIN issued' : k < l => issued'[k] < issued'[l]]_vars

\* three tasks were due together at tick 0 and ticked in the order of
\* their registration, though the last has the smallest tick rate
C35_Witness ==
    /\ built
    /\ tasks = <<6, 3, 2>>
    /\ current_tick = 1
    /\ wraps = 0
    /\ issued = <<1, 2, 3>>

(***************************************************************************)
(* One pass of ProcessorTask::tick past the fetch: the instruction word is *)
(* whatever the program holds at the cursor.                               *)
(***************************************************************************)
Execute(word) ==
    /\ position # "panicked"
    /\ \E ins \in {decode_instruction(Word(word))} :
       \E out \in {interpret_with_timer(processor_config.kind, program_pointer + 2, ins,
                                        stack, registers, execution_state, controller,
                                        delay_timer)} :
          /\ instruction' = Word(word)
          /\ decoded' = ins
          /\ program_pointer' = out.program_pointer
          /\ stack' = out.stack
          /\ registers' = out.registers
          /\ execution_state' = out.execution_state
          /\ delay_timer' = out.delay_timer
          /\ loadd' = Loaded(ins, loadd, registers)
          /\ position' = IF out.panic THEN "panicked" ELSE position
    /\ executed' = executed + 1
    /\ UNCHANGED <<processor_config, batch, controller, remaining, bus_traffic,
                   last_wait, execVars, mirrorVars, busVars, buildVars>>

\* the same for the instructions that go through the memory translation table
ExecuteOnBus(word) ==
    /\ position # "panicked"
    /\ \E ins \in {decode_instruction(Word(word))} :
       \E out \in {interpret_with_bus(processor_config.kind, program_pointer + 2, ins,
                                      stack, registers, execution_state, controller,
                                      delay_timer, table, memory, debug_build)} :
          /\ instruction' = Word(word)
          /\ decoded' = ins
          /\ program_pointer' = out.program_pointer
          /\ stack' = out.stack
          /\ registers' = out.registers
          /\ execution_state' = out.execution_state
          /\ delay_timer' = out.delay_timer
          /\ loadd' = Loaded(ins, loadd, registers)
          /\ memory' = out.memory
          /\ position' = IF out.panic THEN "panicked" ELSE position
    /\ executed' = executed + 1
    /\ UNCHANGED <<processor_config, batch, controller, remaining, bus_traffic,
                   last_wait, table, debug_build, access, accesses, held,
                   execVars, mirrorVars, buildVars>>

\* the processor after construction, of some kind and with some registers
InitProcessor(kinds, work_registers, indexes) ==
    /\ processor_config \in [kind : kinds]
    /\ \E w \in work_registers, i \in indexes :
          registers = [work_registers |-> w, index |-> i]
    /\ delay_timer = 0
    /\ loadd = NoLoadd
    /\ batch = NoBatch
    /\ program_pointer = initial_program_pointer
    /\ stack = <<>>
    /\ execution_state = Normal
    /\ controller = {}
    /\ remaining = 0
    /\ position = "idle"
    /\ executed = 0
    /\ bus_traffic = 0
    /\ last_wait = NoWait
    /\ instruction = <<>>
    /\ decoded = NoInstruction
    /\ machine = "finalized"
    /\ ExecUnbuilt(<<>>)
    /\ MirrorIdle

(***************************************************************************)
(* Calls and returns.                                                      *)
(***************************************************************************)
MaxCallSteps == 17

\* 2NNN Call with one subroutine address, 00EE return
CallWords == {8192 + 768, 238}

CallOrReturn ==
    /\ executed < MaxCallSteps
    /\ \E word \in CallWords : Execute(word)

InitCalls ==
    /\ InitProcessor({"Chip8"}, {[r \in 0..15 |-> 0]}, {0})
    /\ BusIdle

SpecCalls == InitCalls /\ [][CallOrReturn]_vars

\* C36: Call{address} at cursor p pushes p + 2 and sets the cursor to
\* address, the return pops the most recently pushed address into the
\* cursor, so each return of a nested sequence resumes after its matching
\* call with the stack depth, always between 0 and 16, as before that call
C36_CallsAndReturnsNest ==
    /\ [](Len(stack) <= StackCapacity)
    /\ [][(Interpreting("Call") /\ Len(stack) < StackCapacity) =>
             /\ position' # "panicked"
             /\ stack' = Append(stack, program_pointer + 2)
             /\ program_pointer' = decoded'.address]_vars
    /\ [][(Interpreting("Sys") /\ decoded'.syscall = 238 /\ stack # <<>>) =>
             /\ position' # "panicked"
             /\ program_pointer' = stack[Len(stack)]
             /\ stack' = SubSeq(stack, 1, Len(stack) - 1)]_vars

\* sixteen nested calls, then the return of the innermost one to the
\* instruction after it
C36_Witness ==
    /\ executed = 17
    /\ Len(stack) = 15
    /\ decoded.op = "Sys"
    /\ program_pointer = 770
    /\ position # "panicked"

(***************************************************************************)
(* Indexed jumps.                                                          *)
(***************************************************************************)
MaxJumps == 1

\* BNNN with the nibbles 0, 2 and 0xf on top of NNN
JumpiWords == {45056 + nnn : nnn \in {0, 766, 3840, 4095}}

Jumpi ==
    /\ executed < MaxJumps
    /\ \E word \in JumpiWords : Execute(word)

InitJumpi ==
    /\ InitProcessor(Chip8Kinds,
                     {[r \in 0..15 |-> CASE r = 0 -> a [] r = 2 -> b
                                         [] r = 15 -> c [] OTHER -> 0] :
                         a \in Operands, b \in Operands, c \in Operands},
                     {0})
    /\ BusIdle

SpecJumpi == InitJumpi /\ [][Jumpi]_vars

\* C31: Jumpi with operand NNN sets the program cursor to
\* (NNN + V0) mod 65536 when the processor kind is Chip8, and to
\* (NNN + VX) mod 65536, X the most significant nibble of NNN, otherwise
C31_JumpiAddsRegister ==
    [][Interpreting("Jumpi") =>
          LET nnn == (instruction'[1] % 16) * 256 + instruction'[2]
              x == instruction'[1] % 16
          IN program_pointer' =
                (nnn + registers.work_registers[IF processor_config.kind = "Chip8"
                                                THEN 0 ELSE x]) % 65536]_vars

\* B2FE on a processor that is not the original CHIP-8: V2 was added, not V0
C31_Witness ==
    /\ decoded = [op |-> "Jumpi", address |-> 766]
    /\ processor_config.kind = "Chip48"
    /\ registers.work_registers[0] = 1
    /\ registers.work_registers[2] = 255
    /\ program_pointer = 1021

(***************************************************************************)
(* The delay timer: Chip8Timer::tick runs at 60 Hz on its own schedule,    *)
(* the processor loads and reads delay_timer through the timer's Mutex.    *)
(***************************************************************************)
MaxTimerTicks == 4
MaxTimerSteps == 3

saturating_sub_wrapping(a, b) == (a - b + 256) % 256

\* u8::saturating_sub
saturating_sub(a, b) == IF a < b THEN 0 ELSE a - b

\* Chip8Timer::tick
TimerTick ==
    /\ position # "panicked"
    /\ loadd.ticks < MaxTimerTicks
    /\ delay_timer' = saturating_sub(delay_timer, 1)
    /\ loadd' = [loadd EXCEPT !.ticks = @ + 1]
    /\ UNCHANGED <<program_pointer, stack, registers, execution_state,
                   processor_config, batch, controller, remaining, position,
                   executed, bus_traffic, last_wait, instruction, decoded,
                   execVars, mirrorVars, busVars, buildVars>>

\* FX15 with V1 and V2, FX07 into V2
TimerWords == {61717, 61973, 61959}

TimerStep ==
    /\ executed < MaxTimerSteps
    /\ \E word \in TimerWords : Execute(word)

InitTimer ==
    /\ InitProcessor({"Chip8"},
                     {[r \in 0..15 |-> IF r = 1 THEN v ELSE 0] : v \in {0, 1, 3, 255}},
                     {0})
    /\ BusIdle

SpecTimer == InitTimer /\ [][TimerStep \/ TimerTick]_vars

\* C40: the delay timer decreases by exactly one per timer tick and
\* saturates at 0: after Loadd set it to v and n timer ticks occurred with
\* no further Loadd it holds max(v - n, 0) and Moved reads that value; a
\* timer tick never changes it once it is 0
C40_DelayTimerCountsDown ==
    /\ [](delay_timer = Max(loadd.value - loadd.ticks, 0))
    /\ [][Interpreting("Moved") =>
             /\ registers'.work_registers[decoded'.register] =
                   Max(loadd.value - loadd.ticks, 0)
             /\ delay_timer' = delay_timer]_vars
    /\ [][loadd'.ticks = loadd.ticks + 1 =>
             delay_timer' = (IF delay_timer = 0 THEN 0 ELSE delay_timer - 1)]_vars

\* Loadd set 3, V2 read 2 after one tick and reads 0 after four
C40_Witness ==
    /\ loadd = [value |-> 3, ticks |-> 4]
    /\ executed = 3
    /\ decoded.op = "Moved"
    /\ registers.work_registers[2] = 0
    /\ delay_timer = 0

(***************************************************************************)
(* Save and Restore on a bus with a memory in low addresses and a          *)
(* byte-wide memory across the end of the 16 bit range of the index.       *)
(***************************************************************************)
MaxSaves == 2

SaveTable == <<Ram(<<16, 24>>), PlainMemory(<<65532, 65540>>, TRUE, TRUE, 1)>>

SaveContents == [d \in 1..2 |-> [k \in 1..8 |-> 200 + 10 * d + k]]

\* FX55 and FX65 with X = 0 and X = 2
SaveWords == {61525, 62037, 61541, 62053}

SaveOrRestore ==
    /\ executed < MaxSaves
    /\ \E word \in SaveWords : ExecuteOnBus(word)

InitSave ==
    /\ InitProcessor(Chip8Kinds, {[r \in 0..15 |-> 100 + r]}, {16, 22, 65534})
    /\ table = SaveTable
    /\ memory = SaveContents
    /\ debug_build \in BOOLEAN
    /\ access = NoAccess
    /\ accesses = 0
    /\ held = {}

SpecSave == InitSave /\ [][SaveOrRestore]_vars

Mapped(a) == {d \in 1..Len(table) :
                 a >= table[d].assigned_range[1] /\ a < table[d].assigned_range[2]}

BusAddresses ==
    UNION {table[d].assigned_range[1]..(table[d].assigned_range[2] - 1) :
              d \in 1..Len(table)}

\* the byte the bus holds at address a
BusByte(mems, a) ==
    LET d == CHOOSE d \in Mapped(a) : TRUE
    IN mems[d][a - table[d].assigned_range[1] + 1]

\* the step stored V0..V(k-1) at I..I+k-1 and nothing else
StoredUpTo(k) ==
    \A a \in BusAddresses :
       BusByte(memory', a) =
          IF a >= registers.index /\ a < registers.index + k
          THEN registers.work_registers[a - registers.index]
          ELSE BusByte(memory, a)

IndexAfterwards ==
    IF processor_config.kind = "Chip8"
    THEN (registers.index + decoded'.count + 1) % 65536
    ELSE registers.index

\* C32: Save{count} writes V0..Vcount to the bus addresses I..I+count in
\* order, one byte each, and afterwards the index register is
\* (I + count + 1) mod 65536 when the processor kind is Chip8 and is
\* unchanged for every other kind; Restore{count} reads the same addresses
\* into V0..Vcount and treats the index register the same way
C32_SaveAndRestoreMoveIndex ==
    [][/\ (Interpreting("Save") /\ position' # "panicked")
          => /\ StoredUpTo(decoded'.count + 1)
             /\ registers' = [registers EXCEPT !.index = IndexAfterwards]
       /\ (Interpreting("Save") /\ position' = "panicked")
          => \E k \in 0..decoded'.count : StoredUpTo(k)
       /\ (Interpreting("Restore") /\ position' # "panicked")
          => /\ registers'.index = IndexAfterwards
             /\ \A i \in 0..15 :
                   registers'.work_registers[i] =
                      IF i <= decoded'.count
                      THEN BusByte(memory, registers.index + i)
                      ELSE registers.work_registers[i]
             /\ memory' = memory]_vars

\* the original CHIP-8 saved V0..V2 at 65534..65536 and its index wrapped
C32_Witness ==
    /\ executed = 1
    /\ decoded = [op |-> "Save", count |-> 2]
    /\ position # "panicked"
    /\ processor_config.kind = "Chip8"
    /\ registers.index = 1
    /\ BusByte(memory, 65534) = 100
    /\ BusByte(memory, 65536) = 102
====
